---- MODULE Spec2Model ----
(***************************************************************************)
(* Model of ds-go-commonmodels: the message catalog and status table       *)
(* (enum/errors), the canonical HTTPError (http_error) and the validation  *)
(* ErrorEnvelope (validation_error).                                       *)
(*                                                                         *)
(* Conventions.  A Go string is a TLA+ string.  A message template is the  *)
(* sequence of its literal segments, cut at each "%s" verb, so that        *)
(* "%s is required." is <<"", " is required.">>; Raw joins the segments    *)
(* back with "%s".  A pointer is a pair <<type, index>> into the heap of   *)
(* that type; Nil is the nil error.  A Go slice is a record                *)
(* [isNil, items], which keeps a nil slice apart from an empty one.        *)
(***************************************************************************)
EXTENDS Integers, Sequences, FiniteSets, TLC

VARIABLES
    errors,     \* heap of *HTTPError objects, in allocation order
    born,       \* history: for each *HTTPError, the call that constructed it and
                \* the argument of the last WithRetry made on it by a caller
    envelopes,  \* heap of *ErrorEnvelope objects
    hist,       \* history: for each envelope, how it was built and what was appended
    strs,       \* heap of errors.New values; strs[1] is the sentinel ErrValidation
    wraps,      \* heap of fmt.Errorf("...%w", err) values
    boxes,      \* heap of JSONB[T] boxes: the type argument T and the Data held
    models,     \* heap of CoreModel values
    ret         \* the last call: its name, its arguments and what it returned

vars == <<errors, born, envelopes, hist, strs, wraps, boxes, models, ret>>

-----------------------------------------------------------------------------
(* enum/errors: machine codes, catalogs, status table *)

Internal == "internal_error"

DeclaredCodes ==
    {"internal_error", "unauthorized", "forbidden", "not_found",
     "conflict", "bad_request", "validation_failed", "too_many_requests",
     "required", "invalid_email_format", "invalid_json_format", "invalid_status",
     "invalid", "invalid_data_type", "bad_gateway", "ok",
     "created", "accepted", "non_authoritative_info", "no_content",
     "reset_content", "partial_content", "multi_status", "already_reported",
     "im_used", "multiple_choices", "moved_permanently", "found",
     "see_other", "not_modified", "use_proxy", "unused",
     "temporary_redirect", "permanent_redirect", "payment_required", "method_not_allowed",
     "not_acceptable", "proxy_auth_required", "request_timeout", "gone",
     "length_required", "precondition_failed", "content_too_large", "uri_too_long",
     "unsupported_media_type", "range_not_satisfiable", "expectation_failed", "im_a_teapot",
     "misdirected_request", "unprocessable_content", "locked", "failed_dependency",
     "too_early", "upgrade_required", "precondition_required", "request_header_fields_too_large",
     "unavailable_for_legal_reasons", "not_implemented", "service_unavailable", "gateway_timeout",
     "http_version_not_supported", "variant_also_negotiates", "insufficient_storage", "loop_detected",
     "not_extended", "network_auth_required", "require_positive_int"}

messagesEN ==
    ("internal_error" :> <<"Something went wrong on our side. Please try again.">>)
 @@ ("unauthorized" :> <<"You need to sign in to continue.">>)
 @@ ("forbidden" :> <<"You don't have permission to perform this action.">>)
 @@ ("not_found" :> <<"The requested resource was not found.">>)
 @@ ("conflict" :> <<"The resource is in a conflicting state.">>)
 @@ ("bad_request" :> <<"Your request could not be understood.">>)
 @@ ("validation_failed" :> <<"One or more fields failed validation.">>)
 @@ ("too_many_requests" :> <<"Too many requests. Please slow down.">>)
 @@ ("required" :> <<"", " is required.">>)
 @@ ("invalid_email_format" :> <<"", " must be a valid email address.">>)
 @@ ("invalid_json_format" :> <<"Request body must be valid JSON.">>)
 @@ ("invalid_status" :> <<"The provided status ", " is invalid. Allowed values include active, deleted, suspended, rejected, draft">>)
 @@ ("invalid" :> <<"Invalid">>)
 @@ ("invalid_data_type" :> <<"The provided data type ", " is invalid. Allowed values include string, int64, float64, decimal, time, datetime, bytes, uuid, map">>)
 @@ ("bad_gateway" :> <<"The server received an invalid response from an upstream service. Please try again later.">>)
 @@ ("ok" :> <<"Success.">>)
 @@ ("created" :> <<"Resource created successfully.">>)
 @@ ("accepted" :> <<"Request accepted for processing.">>)
 @@ ("non_authoritative_info" :> <<"Non-authoritative information.">>)
 @@ ("no_content" :> <<"No content.">>)
 @@ ("reset_content" :> <<"Reset content.">>)
 @@ ("partial_content" :> <<"Partial content delivered.">>)
 @@ ("multi_status" :> <<"Multiple status responses.">>)
 @@ ("already_reported" :> <<"Already reported.">>)
 @@ ("im_used" :> <<"IM used.">>)
 @@ ("multiple_choices" :> <<"Multiple choices available.">>)
 @@ ("moved_permanently" :> <<"Resource moved permanently.">>)
 @@ ("found" :> <<"Resource found.">>)
 @@ ("see_other" :> <<"See other resource.">>)
 @@ ("not_modified" :> <<"Resource not modified.">>)
 @@ ("use_proxy" :> <<"Use proxy.">>)
 @@ ("unused" :> <<"Unused status code.">>)
 @@ ("temporary_redirect" :> <<"Temporary redirect.">>)
 @@ ("permanent_redirect" :> <<"Permanent redirect.">>)
 @@ ("payment_required" :> <<"Payment required.">>)
 @@ ("method_not_allowed" :> <<"Method not allowed.">>)
 @@ ("not_acceptable" :> <<"Not acceptable.">>)
 @@ ("proxy_auth_required" :> <<"Proxy authentication required.">>)
 @@ ("request_timeout" :> <<"Request timeout.">>)
 @@ ("gone" :> <<"Resource gone.">>)
 @@ ("length_required" :> <<"Content length required.">>)
 @@ ("precondition_failed" :> <<"Precondition failed.">>)
 @@ ("content_too_large" :> <<"Content too large.">>)
 @@ ("uri_too_long" :> <<"URI too long.">>)
 @@ ("unsupported_media_type" :> <<"Unsupported media type.">>)
 @@ ("range_not_satisfiable" :> <<"Range not satisfiable.">>)
 @@ ("expectation_failed" :> <<"Expectation failed.">>)
 @@ ("im_a_teapot" :> <<"I'm a teapot.">>)
 @@ ("misdirected_request" :> <<"Misdirected request.">>)
 @@ ("unprocessable_content" :> <<"Unprocessable content.">>)
 @@ ("locked" :> <<"Resource locked.">>)
 @@ ("failed_dependency" :> <<"Failed dependency.">>)
 @@ ("too_early" :> <<"Too early.">>)
 @@ ("upgrade_required" :> <<"Upgrade required.">>)
 @@ ("precondition_required" :> <<"Precondition required.">>)
 @@ ("request_header_fields_too_large" :> <<"Request header fields too large.">>)
 @@ ("unavailable_for_legal_reasons" :> <<"Unavailable for legal reasons.">>)
 @@ ("not_implemented" :> <<"Not implemented.">>)
 @@ ("service_unavailable" :> <<"Service unavailable.">>)
 @@ ("gateway_timeout" :> <<"Gateway timeout.">>)
 @@ ("http_version_not_supported" :> <<"HTTP version not supported.">>)
 @@ ("variant_also_negotiates" :> <<"Variant also negotiates.">>)
 @@ ("insufficient_storage" :> <<"Insufficient storage.">>)
 @@ ("loop_detected" :> <<"Loop detected.">>)
 @@ ("not_extended" :> <<"Not extended.">>)
 @@ ("network_auth_required" :> <<"Network authentication required.">>)
 @@ ("require_positive_int" :> <<"Integer must be positive.">>)

messagesNB ==
    ("internal_error" :> <<"Noe gikk galt hos oss. Prøv igjen.">>)
 @@ ("unauthorized" :> <<"Du må være innlogget for å fortsette.">>)
 @@ ("forbidden" :> <<"Du har ikke tilgang til denne handlingen.">>)
 @@ ("not_found" :> <<"Forespurt ressurs ble ikke funnet.">>)
 @@ ("conflict" :> <<"Ressursen er i konflikt.">>)
 @@ ("bad_request" :> <<"Forespørselen kunne ikke forstås.">>)
 @@ ("validation_failed" :> <<"Ett eller flere felt feilet validering.">>)
 @@ ("too_many_requests" :> <<"For mange forespørsler. Vent litt.">>)
 @@ ("required" :> <<"", " er påkrevd.">>)
 @@ ("invalid_email_format" :> <<"", " må være en gyldig e-postadresse.">>)
 @@ ("invalid_json_format" :> <<"Kroppen i forespørselen må være gyldig JSON.">>)
 @@ ("invalid_status" :> <<"Oppgitt statusverdi er ugyldig. Gyldige verdier inkluderer active, deleted, suspended, rejected, draft">>)
 @@ ("invalid" :> <<"Ugyldig">>)
 @@ ("invalid_data_type" :> <<"Oppgitt datatypeverdi er ugyldig. Gyldige verdier inkluderer string, int64, float64, decimal, time, datetime, bytes, uuid, map">>)
 @@ ("bad_gateway" :> <<"Serveren mottok et ugyldig svar fra en ekstern tjeneste. Prøv igjen senere.">>)
 @@ ("ok" :> <<"Vellykket.">>)
 @@ ("created" :> <<"Ressurs opprettet.">>)
 @@ ("accepted" :> <<"Forespørsel akseptert for behandling.">>)
 @@ ("non_authoritative_info" :> <<"Ikke-autoritativ informasjon.">>)
 @@ ("no_content" :> <<"Ingen innhold.">>)
 @@ ("reset_content" :> <<"Tilbakestill innhold.">>)
 @@ ("partial_content" :> <<"Delvis innhold levert.">>)
 @@ ("multi_status" :> <<"Flere statusresponser.">>)
 @@ ("already_reported" :> <<"Allerede rapportert.">>)
 @@ ("im_used" :> <<"IM brukt.">>)
 @@ ("multiple_choices" :> <<"Flere valg tilgjengelig.">>)
 @@ ("moved_permanently" :> <<"Ressursen er permanent flyttet.">>)
 @@ ("found" :> <<"Ressurs funnet.">>)
 @@ ("see_other" :> <<"Se annen ressurs.">>)
 @@ ("not_modified" :> <<"Ressurs ikke endret.">>)
 @@ ("use_proxy" :> <<"Bruk proxy.">>)
 @@ ("unused" :> <<"Ubrukt statuskode.">>)
 @@ ("temporary_redirect" :> <<"Midlertidig omdirigering.">>)
 @@ ("permanent_redirect" :> <<"Permanent omdirigering.">>)
 @@ ("payment_required" :> <<"Betaling kreves.">>)
 @@ ("method_not_allowed" :> <<"Metode ikke tillatt.">>)
 @@ ("not_acceptable" :> <<"Ikke akseptabelt.">>)
 @@ ("proxy_auth_required" :> <<"Proxy-autentisering kreves.">>)
 @@ ("request_timeout" :> <<"Forespørselen har tidsavbrudd.">>)
 @@ ("gone" :> <<"Ressursen er fjernet.">>)
 @@ ("length_required" :> <<"Content-Length kreves.">>)
 @@ ("precondition_failed" :> <<"Forutsetning feilet.">>)
 @@ ("content_too_large" :> <<"Innholdet er for stort.">>)
 @@ ("uri_too_long" :> <<"URI er for lang.">>)
 @@ ("unsupported_media_type" :> <<"Medietype ikke støttet.">>)
 @@ ("range_not_satisfiable" :> <<"Område ikke tilfredsstillende.">>)
 @@ ("expectation_failed" :> <<"Forventning feilet.">>)
 @@ ("im_a_teapot" :> <<"Jeg er en tekanne.">>)
 @@ ("misdirected_request" :> <<"Feilrettet forespørsel.">>)
 @@ ("unprocessable_content" :> <<"Kan ikke behandle innhold.">>)
 @@ ("locked" :> <<"Ressursen er låst.">>)
 @@ ("failed_dependency" :> <<"Avhengighet feilet.">>)
 @@ ("too_early" :> <<"For tidlig.">>)
 @@ ("upgrade_required" :> <<"Oppgradering kreves.">>)
 @@ ("precondition_required" :> <<"Forutsetning kreves.">>)
 @@ ("request_header_fields_too_large" :> <<"Forespørselens header-felt er for store.">>)
 @@ ("unavailable_for_legal_reasons" :> <<"Utilgjengelig av juridiske årsaker.">>)
 @@ ("not_implemented" :> <<"Ikke implementert.">>)
 @@ ("service_unavailable" :> <<"Tjenesten er utilgjengelig.">>)
 @@ ("gateway_timeout" :> <<"Gateway tidsavbrudd.">>)
 @@ ("http_version_not_supported" :> <<"HTTP-versjon ikke støttet.">>)
 @@ ("variant_also_negotiates" :> <<"Variant forhandler også.">>)
 @@ ("insufficient_storage" :> <<"Utilstrekkelig lagringsplass.">>)
 @@ ("loop_detected" :> <<"Sløyfe oppdaget.">>)
 @@ ("not_extended" :> <<"Ikke utvidet.">>)
 @@ ("network_auth_required" :> <<"Nettverksautentisering kreves.">>)
 @@ ("require_positive_int" :> <<"Heltallet må være positivt.">>)

statusByCode ==
    ("internal_error" :> 500)
 @@ ("unauthorized" :> 401)
 @@ ("forbidden" :> 403)
 @@ ("not_found" :> 404)
 @@ ("conflict" :> 409)
 @@ ("bad_request" :> 400)
 @@ ("validation_failed" :> 422)
 @@ ("too_many_requests" :> 429)
 @@ ("required" :> 400)
 @@ ("invalid_email_format" :> 400)
 @@ ("invalid_json_format" :> 400)
 @@ ("invalid_status" :> 400)
 @@ ("invalid" :> 400)
 @@ ("bad_gateway" :> 502)
 @@ ("ok" :> 200)
 @@ ("created" :> 201)
 @@ ("accepted" :> 202)
 @@ ("non_authoritative_info" :> 203)
 @@ ("no_content" :> 204)
 @@ ("reset_content" :> 205)
 @@ ("partial_content" :> 206)
 @@ ("multi_status" :> 207)
 @@ ("already_reported" :> 208)
 @@ ("im_used" :> 226)
 @@ ("multiple_choices" :> 300)
 @@ ("moved_permanently" :> 301)
 @@ ("found" :> 302)
 @@ ("see_other" :> 303)
 @@ ("not_modified" :> 304)
 @@ ("use_proxy" :> 305)
 @@ ("unused" :> 306)
 @@ ("temporary_redirect" :> 307)
 @@ ("permanent_redirect" :> 308)
 @@ ("payment_required" :> 402)
 @@ ("method_not_allowed" :> 405)
 @@ ("not_acceptable" :> 406)
 @@ ("proxy_auth_required" :> 407)
 @@ ("request_timeout" :> 408)
 @@ ("gone" :> 410)
 @@ ("length_required" :> 411)
 @@ ("precondition_failed" :> 412)
 @@ ("content_too_large" :> 413)
 @@ ("uri_too_long" :> 414)
 @@ ("unsupported_media_type" :> 415)
 @@ ("range_not_satisfiable" :> 416)
 @@ ("expectation_failed" :> 417)
 @@ ("im_a_teapot" :> 418)
 @@ ("misdirected_request" :> 421)
 @@ ("unprocessable_content" :> 422)
 @@ ("locked" :> 423)
 @@ ("failed_dependency" :> 424)
 @@ ("too_early" :> 425)
 @@ ("upgrade_required" :> 426)
 @@ ("precondition_required" :> 428)
 @@ ("request_header_fields_too_large" :> 431)
 @@ ("unavailable_for_legal_reasons" :> 451)
 @@ ("not_implemented" :> 501)
 @@ ("service_unavailable" :> 503)
 @@ ("gateway_timeout" :> 504)
 @@ ("http_version_not_supported" :> 505)
 @@ ("variant_also_negotiates" :> 506)
 @@ ("insufficient_storage" :> 507)
 @@ ("loop_detected" :> 508)
 @@ ("not_extended" :> 510)
 @@ ("network_auth_required" :> 511)
 @@ ("require_positive_int" :> 400)

catalogs == ("en" :> messagesEN) @@ ("nb" :> messagesNB)

StatusInternalServerError == 500

\* The template as Go holds it: one string, its "%s" verbs in place.
RECURSIVE Raw(_)
Raw(t) == IF Len(t) = 1 THEN t[1] ELSE t[1] \o "%s" \o Raw(Tail(t))

\* fmt.Sprintf's report of operands no verb consumed: %!(EXTRA string=a, string=b)
RECURSIVE ExtraOperands(_)
ExtraOperands(args) ==
    IF Len(args) = 1 THEN "string=" \o args[1]
    ELSE "string=" \o args[1] \o ", " \o ExtraOperands(Tail(args))

\* fmt.Sprintf(msg, args...) for a template of "%s" verbs and string operands:
\* each verb takes the next operand, or prints %!s(MISSING) when none is left.
RECURSIVE Sprintf(_, _)
Sprintf(t, args) ==
    IF Len(t) = 1
    THEN t[1] \o (IF args = <<>> THEN "" ELSE "%!(EXTRA " \o ExtraOperands(args) \o ")")
    ELSE t[1] \o (IF args = <<>> THEN "%!s(MISSING)" ELSE args[1])
              \o Sprintf(Tail(t), IF args = <<>> THEN <<>> ELSE Tail(args))

\* HumanMessageLocale without its code fallback: a missing code yields the map's
\* zero value, the empty string.
HumanMessageLocaleNoFallback(locale, code, args) ==
    LET cat == IF locale \in DOMAIN catalogs THEN catalogs[locale] ELSE messagesEN
        msg == IF code \in DOMAIN cat THEN cat[code] ELSE <<"">>
    IN  IF Len(args) > 0 THEN Sprintf(msg, args) ELSE Raw(msg)

HumanMessageLocale(locale, code, args) ==
    LET cat == IF locale \in DOMAIN catalogs THEN catalogs[locale] ELSE messagesEN
        msg == IF code \in DOMAIN cat THEN cat[code] ELSE messagesEN[Internal]
    IN  IF Len(args) > 0 THEN Sprintf(msg, args) ELSE Raw(msg)

HumanMessage(code, args) == HumanMessageLocale("en", code, args)

\* StatusFor as a bare map lookup: the zero value for a missing code.
StatusForLookup(code) ==
    IF code \in DOMAIN statusByCode THEN statusByCode[code] ELSE 0

StatusFor(code) ==
    IF code \in DOMAIN statusByCode THEN statusByCode[code]
    ELSE StatusInternalServerError

-----------------------------------------------------------------------------
(* Initial state: nothing allocated but the package-level sentinel. *)

Nil == <<"nil", 0>>
ErrValidation == <<"errorString", 1>>

Init ==
    /\ errors = <<>>
    /\ born = <<>>
    /\ envelopes = <<>>
    /\ hist = <<>>
    /\ strs = <<"validation error">>
    /\ wraps = <<>>
    /\ boxes = <<>>
    /\ models = <<>>
    /\ ret = [op |-> "init"]

-----------------------------------------------------------------------------
(* http_error: the HTTPError type, its methods and constructors *)

\* The 59 named constructors.  Each has the same body: resolve the locale,
\* default the message from the catalog under msgCode, NewHTTPError with code and
\* status, and for two of them a trailing WithRetry(n) (retry = <<n>>).
constructors ==
    ("Internal" :> [msgCode |-> "internal_error", code |-> "internal_error", status |-> 500, retry |-> <<>>])
 @@ ("BadGateway" :> [msgCode |-> "bad_gateway", code |-> "bad_gateway", status |-> 502, retry |-> <<>>])
 @@ ("PartialContent" :> [msgCode |-> "partial_content", code |-> "partial_content", status |-> 206, retry |-> <<>>])
 @@ ("Unauthorized" :> [msgCode |-> "unauthorized", code |-> "unauthorized", status |-> 401, retry |-> <<>>])
 @@ ("Forbidden" :> [msgCode |-> "forbidden", code |-> "forbidden", status |-> 403, retry |-> <<>>])
 @@ ("NotFound" :> [msgCode |-> "not_found", code |-> "not_found", status |-> 404, retry |-> <<>>])
 @@ ("Conflict" :> [msgCode |-> "conflict", code |-> "conflict", status |-> 409, retry |-> <<>>])
 @@ ("TooManyRequests" :> [msgCode |-> "too_many_requests", code |-> "too_many_requests", status |-> 429, retry |-> <<60>>])
 @@ ("ServiceUnavailable" :> [msgCode |-> "service_unavailable", code |-> "service_unavailable", status |-> 503, retry |-> <<30>>])
 @@ ("BadRequest" :> [msgCode |-> "bad_request", code |-> "bad_request", status |-> 400, retry |-> <<>>])
 @@ ("OK" :> [msgCode |-> "ok", code |-> "ok", status |-> 200, retry |-> <<>>])
 @@ ("Created" :> [msgCode |-> "created", code |-> "created", status |-> 201, retry |-> <<>>])
 @@ ("Accepted" :> [msgCode |-> "accepted", code |-> "accepted", status |-> 202, retry |-> <<>>])
 @@ ("NonAuthoritativeInfo" :> [msgCode |-> "non_authoritative_info", code |-> "non_authoritative_info", status |-> 203, retry |-> <<>>])
 @@ ("NoContent" :> [msgCode |-> "no_content", code |-> "no_content", status |-> 204, retry |-> <<>>])
 @@ ("ResetContent" :> [msgCode |-> "reset_content", code |-> "reset_content", status |-> 205, retry |-> <<>>])
 @@ ("MultiStatus" :> [msgCode |-> "multi_status", code |-> "multi_status", status |-> 207, retry |-> <<>>])
 @@ ("AlreadyReported" :> [msgCode |-> "already_reported", code |-> "already_reported", status |-> 208, retry |-> <<>>])
 @@ ("IMUsed" :> [msgCode |-> "im_used", code |-> "im_used", status |-> 226, retry |-> <<>>])
 @@ ("MultipleChoices" :> [msgCode |-> "multiple_choices", code |-> "multiple_choices", status |-> 300, retry |-> <<>>])
 @@ ("MovedPermanently" :> [msgCode |-> "moved_permanently", code |-> "moved_permanently", status |-> 301, retry |-> <<>>])
 @@ ("Found" :> [msgCode |-> "found", code |-> "found", status |-> 302, retry |-> <<>>])
 @@ ("SeeOther" :> [msgCode |-> "see_other", code |-> "see_other", status |-> 303, retry |-> <<>>])
 @@ ("NotModified" :> [msgCode |-> "not_modified", code |-> "not_modified", status |-> 304, retry |-> <<>>])
 @@ ("UseProxy" :> [msgCode |-> "use_proxy", code |-> "use_proxy", status |-> 305, retry |-> <<>>])
 @@ ("Unused" :> [msgCode |-> "unused", code |-> "unused", status |-> 306, retry |-> <<>>])
 @@ ("TemporaryRedirect" :> [msgCode |-> "temporary_redirect", code |-> "temporary_redirect", status |-> 307, retry |-> <<>>])
 @@ ("PermanentRedirect" :> [msgCode |-> "permanent_redirect", code |-> "permanent_redirect", status |-> 308, retry |-> <<>>])
 @@ ("PaymentRequired" :> [msgCode |-> "payment_required", code |-> "payment_required", status |-> 402, retry |-> <<>>])
 @@ ("MethodNotAllowed" :> [msgCode |-> "method_not_allowed", code |-> "method_not_allowed", status |-> 405, retry |-> <<>>])
 @@ ("NotAcceptable" :> [msgCode |-> "not_acceptable", code |-> "not_acceptable", status |-> 406, retry |-> <<>>])
 @@ ("ProxyAuthRequired" :> [msgCode |-> "proxy_auth_required", code |-> "proxy_auth_required", status |-> 407, retry |-> <<>>])
 @@ ("RequestTimeout" :> [msgCode |-> "request_timeout", code |-> "request_timeout", status |-> 408, retry |-> <<>>])
 @@ ("Gone" :> [msgCode |-> "gone", code |-> "gone", status |-> 410, retry |-> <<>>])
 @@ ("LengthRequired" :> [msgCode |-> "length_required", code |-> "length_required", status |-> 411, retry |-> <<>>])
 @@ ("PreconditionFailed" :> [msgCode |-> "precondition_failed", code |-> "precondition_failed", status |-> 412, retry |-> <<>>])
 @@ ("ContentTooLarge" :> [msgCode |-> "content_too_large", code |-> "content_too_large", status |-> 413, retry |-> <<>>])
 @@ ("URITooLong" :> [msgCode |-> "uri_too_long", code |-> "uri_too_long", status |-> 414, retry |-> <<>>])
 @@ ("UnsupportedMediaType" :> [msgCode |-> "unsupported_media_type", code |-> "unsupported_media_type", status |-> 415, retry |-> <<>>])
 @@ ("RangeNotSatisfiable" :> [msgCode |-> "range_not_satisfiable", code |-> "range_not_satisfiable", status |-> 416, retry |-> <<>>])
 @@ ("ExpectationFailed" :> [msgCode |-> "expectation_failed", code |-> "expectation_failed", status |-> 417, retry |-> <<>>])
 @@ ("ImATeapot" :> [msgCode |-> "im_a_teapot", code |-> "im_a_teapot", status |-> 418, retry |-> <<>>])
 @@ ("MisdirectedRequest" :> [msgCode |-> "misdirected_request", code |-> "misdirected_request", status |-> 421, retry |-> <<>>])
 @@ ("UnprocessableContent" :> [msgCode |-> "unprocessable_content", code |-> "unprocessable_content", status |-> 422, retry |-> <<>>])
 @@ ("Locked" :> [msgCode |-> "locked", code |-> "locked", status |-> 423, retry |-> <<>>])
 @@ ("FailedDependency" :> [msgCode |-> "failed_dependency", code |-> "failed_dependency", status |-> 424, retry |-> <<>>])
 @@ ("TooEarly" :> [msgCode |-> "too_early", code |-> "too_early", status |-> 425, retry |-> <<>>])
 @@ ("UpgradeRequired" :> [msgCode |-> "upgrade_required", code |-> "upgrade_required", status |-> 426, retry |-> <<>>])
 @@ ("PreconditionRequired" :> [msgCode |-> "precondition_required", code |-> "precondition_required", status |-> 428, retry |-> <<>>])
 @@ ("RequestHeaderFieldsTooLarge" :> [msgCode |-> "request_header_fields_too_large", code |-> "request_header_fields_too_large", status |-> 431, retry |-> <<>>])
 @@ ("UnavailableForLegalReasons" :> [msgCode |-> "unavailable_for_legal_reasons", code |-> "unavailable_for_legal_reasons", status |-> 451, retry |-> <<>>])
 @@ ("NotImplemented" :> [msgCode |-> "not_implemented", code |-> "not_implemented", status |-> 501, retry |-> <<>>])
 @@ ("GatewayTimeout" :> [msgCode |-> "gateway_timeout", code |-> "gateway_timeout", status |-> 504, retry |-> <<>>])
 @@ ("HTTPVersionNotSupported" :> [msgCode |-> "http_version_not_supported", code |-> "http_version_not_supported", status |-> 505, retry |-> <<>>])
 @@ ("VariantAlsoNegotiates" :> [msgCode |-> "variant_also_negotiates", code |-> "variant_also_negotiates", status |-> 506, retry |-> <<>>])
 @@ ("InsufficientStorage" :> [msgCode |-> "insufficient_storage", code |-> "insufficient_storage", status |-> 507, retry |-> <<>>])
 @@ ("LoopDetected" :> [msgCode |-> "loop_detected", code |-> "loop_detected", status |-> 508, retry |-> <<>>])
 @@ ("NotExtended" :> [msgCode |-> "not_extended", code |-> "not_extended", status |-> 510, retry |-> <<>>])
 @@ ("NetworkAuthenticationRequired" :> [msgCode |-> "network_auth_required", code |-> "network_auth_required", status |-> 511, retry |-> <<>>])

NewHTTPError(requestID, code, message, status) ==
    [Code |-> code, Message |-> message, RequestID |-> requestID,
     Recoverable |-> FALSE, RetryAfter |-> 0, cause |-> Nil, status |-> status]

GetLocale(locale) ==
    IF Len(locale) > 0 /\ locale[1] /= "" THEN locale[1] ELSE "en"

\* WithRetry deriving Recoverable from retryAfterSeconds >= 0.
WithRetryNonNegative(e, retryAfterSeconds) ==
    [e EXCEPT !.RetryAfter = retryAfterSeconds,
              !.Recoverable = (retryAfterSeconds >= 0)]

\* WithRetry keeping the larger of the old and the new RetryAfter.
WithRetryKeepLarger(e, retryAfterSeconds) ==
    LET n == IF e.RetryAfter > retryAfterSeconds THEN e.RetryAfter ELSE retryAfterSeconds
    IN  [e EXCEPT !.RetryAfter = n, !.Recoverable = (n > 0)]

WithRetry(e, retryAfterSeconds) ==
    [e EXCEPT !.RetryAfter = retryAfterSeconds,
              !.Recoverable = (retryAfterSeconds > 0)]

\* WithCause clearing the explicit status as it attaches the cause.
WithCauseClearingStatus(e, cause) ==
    IF cause /= Nil THEN [e EXCEPT !.cause = cause, !.status = 0] ELSE e

WithCause(e, cause) ==
    IF cause /= Nil THEN [e EXCEPT !.cause = cause] ELSE e

\* Unwrap() exposing no cause.
UnwrapNothing(e) == Nil

UnwrapHTTPError(e) == e.cause

\* Status by the fixed switch of the earlier revision of Status(), which knows
\* eight codes and answers 500 for every other one.
StatusBySwitch(e) ==
    IF e.status /= 0 THEN e.status
    ELSE CASE e.Code \in {"bad_request", "validation_failed"} -> 400
           [] e.Code = "unauthorized" -> 401
           [] e.Code = "forbidden" -> 403
           [] e.Code = "not_found" -> 404
           [] e.Code = "conflict" -> 409
           [] e.Code = "too_many_requests" -> 429
           [] e.Code = "bad_gateway" -> 502
           [] OTHER -> StatusInternalServerError

Status(e) ==
    IF e.status /= 0 THEN e.status ELSE StatusFor(e.Code)

\* strconv.Itoa
Digits == <<"0", "1", "2", "3", "4", "5", "6", "7", "8", "9">>

RECURSIVE Itoa(_)
Itoa(n) ==
    IF n < 0 THEN "-" \o Itoa(-n)
    ELSE IF n < 10 THEN Digits[n + 1]
    ELSE Itoa(n \div 10) \o Digits[(n % 10) + 1]

\* http.Header: a map from header name to the list of its values.
\* Header.Set(k, v) replaces the list by the one value.
HeaderSet(h, k, v) == [x \in (DOMAIN h) \cup {k} |-> IF x = k THEN <<v>> ELSE h[x]]

\* Response emitting Retry-After for every RetryAfter >= 0.
ResponseHeaderAlways(p) ==
    LET e == errors[p[2]]
    IN  [status |-> Status(e),
         headers |-> IF e.RetryAfter >= 0
                     THEN HeaderSet(<<>>, "Retry-After", Itoa(e.RetryAfter))
                     ELSE <<>>,
         body |-> p]

\* Response of the *HTTPError at p: (status, headers, the same pointer).
Response(p) ==
    LET e == errors[p[2]]
    IN  [status |-> Status(e),
         headers |-> IF e.RetryAfter > 0
                     THEN HeaderSet(<<>>, "Retry-After", Itoa(e.RetryAfter))
                     ELSE <<>>,
         body |-> p]

\* A named constructor without the trailing WithRetry of TooManyRequests and
\* ServiceUnavailable.
NamedWithoutRetry(K, requestID, msg, locale) ==
    LET c == constructors[K]
        loc == GetLocale(locale)
        m == IF msg = "" THEN HumanMessageLocale(loc, c.msgCode, <<>>) ELSE msg
    IN  NewHTTPError(requestID, c.code, m, c.status)

\* The named constructors with ServiceUnavailable as the earlier revision has
\* it: code internal_error next to status 503.
NamedEarlierServiceUnavailable(K, requestID, msg, locale) ==
    LET c == constructors[K]
        loc == GetLocale(locale)
        m == IF msg = "" THEN HumanMessageLocale(loc, c.msgCode, <<>>) ELSE msg
        code == IF K = "ServiceUnavailable" THEN Internal ELSE c.code
        e == NewHTTPError(requestID, code, m, c.status)
    IN  IF c.retry /= <<>> THEN WithRetry(e, c.retry[1]) ELSE e

\* The body shared by every named constructor K(requestID, msg, locale...).
Named(K, requestID, msg, locale) ==
    LET c == constructors[K]
        loc == GetLocale(locale)
        m == IF msg = "" THEN HumanMessageLocale(loc, c.msgCode, <<>>) ELSE msg
        e == NewHTTPError(requestID, c.code, m, c.status)
    IN  IF c.retry /= <<>> THEN WithRetry(e, c.retry[1]) ELSE e

-----------------------------------------------------------------------------
(* Heap access *)

IsHTTPError(p) == p[1] = "HTTPError"
IsEnvelope(p) == p[1] = "ErrorEnvelope"
IsWrap(p) == p[1] = "wrapError"

HTTPErrorPtrs == {<<"HTTPError", i>> : i \in DOMAIN errors}
EnvelopePtrs == {<<"ErrorEnvelope", i>> : i \in DOMAIN envelopes}
StrPtrs == {<<"errorString", i>> : i \in DOMAIN strs}
WrapPtrs == {<<"wrapError", i>> : i \in DOMAIN wraps}
ErrorValues == HTTPErrorPtrs \cup EnvelopePtrs \cup StrPtrs \cup WrapPtrs \cup {Nil}

\* The errors reached from p through the cause field of an HTTPError and the
\* wrapped operand of fmt.Errorf, p first, each once: WithCause takes any
\* non-nil cause, so a chain may lead back to an error it has passed, and the
\* listing stops there.
RECURSIVE ChainFrom(_, _)
ChainFrom(p, seen) ==
    IF p = Nil \/ p \in seen THEN <<>>
    ELSE <<p>> \o (IF IsHTTPError(p) THEN ChainFrom(errors[p[2]].cause, seen \cup {p})
                   ELSE IF IsWrap(p) THEN ChainFrom(wraps[p[2]].err, seen \cup {p})
                   ELSE <<>>)

CauseChain(p) == ChainFrom(p, {})

-----------------------------------------------------------------------------
(* Calls on HTTPError *)

Construct(K, requestID, msg, locale) ==
    /\ errors' = Append(errors, Named(K, requestID, msg, locale))
    /\ born' = Append(born, [ctor |-> K, requestID |-> requestID, msg |-> msg,
                             locale |-> locale, code |-> constructors[K].code,
                             status |-> constructors[K].status, retried |-> <<>>])
    /\ ret' = [op |-> "Construct", val |-> <<"HTTPError", Len(errors) + 1>>]
    /\ UNCHANGED <<envelopes, hist, strs, wraps, boxes, models>>

CallNewHTTPError(requestID, code, message, status) ==
    /\ errors' = Append(errors, NewHTTPError(requestID, code, message, status))
    /\ born' = Append(born, [ctor |-> "NewHTTPError", requestID |-> requestID,
                             msg |-> message, locale |-> <<>>, code |-> code,
                             status |-> status, retried |-> <<>>])
    /\ ret' = [op |-> "Construct", val |-> <<"HTTPError", Len(errors) + 1>>]
    /\ UNCHANGED <<envelopes, hist, strs, wraps, boxes, models>>

CallWithRetry(p, n) ==
    /\ errors' = [errors EXCEPT ![p[2]] = WithRetry(@, n)]
    /\ born' = [born EXCEPT ![p[2]].retried = <<n>>]
    /\ ret' = [op |-> "WithRetry", recv |-> p, n |-> n, val |-> p]
    /\ UNCHANGED <<envelopes, hist, strs, wraps, boxes, models>>

\* Any cause is taken, the receiver itself and an error that wraps the
\* receiver included.
CallWithCause(p, cause) ==
    /\ errors' = [errors EXCEPT ![p[2]] = WithCause(@, cause)]
    /\ ret' = [op |-> "WithCause", recv |-> p, cause |-> cause, val |-> p]
    /\ UNCHANGED <<born, envelopes, hist, strs, wraps, boxes, models>>

CallStatus(p) ==
    /\ ret' = [op |-> "Status", recv |-> p, val |-> Status(errors[p[2]])]
    /\ UNCHANGED <<errors, born, envelopes, hist, strs, wraps, boxes, models>>

\* Response() consuming the retry hint once it has been written to the header.
CallResponseConsuming(p) ==
    /\ ret' = [op |-> "Response", recv |-> p, val |-> Response(p)]
    /\ errors' = [errors EXCEPT ![p[2]] = WithRetry(@, 0)]
    /\ UNCHANGED <<born, envelopes, hist, strs, wraps, boxes, models>>

CallResponse(p) ==
    /\ ret' = [op |-> "Response", recv |-> p, val |-> Response(p)]
    /\ UNCHANGED <<errors, born, envelopes, hist, strs, wraps, boxes, models>>

-----------------------------------------------------------------------------
(* Spec: one HTTPError from its construction to its response.  Any constructor
   builds it; WithRetry, WithCause, Status and Response then act on it in any
   order and any number of times. *)

RequestIDs == {"31ac4e2a-10a1-471d-ac7c-fd6ee13a526d"}
Messages == {"", "invalid payload"}
LocaleLists == {<<>>, <<"nb">>, <<"", "nb">>, <<"fr", "nb">>}
RetryInputs == {-5, 0, 1, 90, 120}
DirectCodes == {"not_found", "required", "validation_failed", "invalid_data_type", "no_such_code"}
DirectStatuses == {0, 404, 418}

Next ==
    \/ \E K \in DOMAIN constructors, id \in RequestIDs, msg \in Messages,
          locale \in LocaleLists :
          errors = <<>> /\ Construct(K, id, msg, locale)
    \/ \E id \in RequestIDs, code \in DirectCodes, msg \in Messages,
          status \in DirectStatuses :
          errors = <<>> /\ CallNewHTTPError(id, code, msg, status)
    \/ \E p \in HTTPErrorPtrs, n \in RetryInputs : CallWithRetry(p, n)
    \/ \E p \in HTTPErrorPtrs, cause \in ErrorValues : CallWithCause(p, cause)
    \/ \E p \in HTTPErrorPtrs : CallStatus(p)
    \/ \E p \in HTTPErrorPtrs : CallResponse(p)

Spec == Init /\ [][Next]_vars

\* C1: after any constructor and any sequence of WithRetry, WithCause, Status and
\* Response calls, Recoverable is true exactly when RetryAfter > 0.
C1_RecoverableIffRetryAfter ==
    \A i \in DOMAIN errors : errors[i].Recoverable <=> (errors[i].RetryAfter > 0)

\* C1 witness: TooManyRequests (recoverable by default) after WithRetry(-5).
C1_Witness ==
    /\ ret.op = "WithRetry"
    /\ ret.n < 0
    /\ born[ret.recv[2]].ctor = "TooManyRequests"
    /\ errors[ret.recv[2]].RetryAfter = ret.n
    /\ ~errors[ret.recv[2]].Recoverable

\* A decimal numeral: the digits ds, most significant first, without a leading
\* zero unless it is the single digit 0.
DigitLengths == {1, 2, 3}
Numerals == UNION {[1..k -> 0..9] : k \in DigitLengths}

RECURSIVE NumeralValue(_)
NumeralValue(ds) ==
    IF ds = <<>> THEN 0
    ELSE 10 * NumeralValue(SubSeq(ds, 1, Len(ds) - 1)) + ds[Len(ds)]

RECURSIVE NumeralText(_)
NumeralText(ds) ==
    IF ds = <<>> THEN "" ELSE Digits[ds[1] + 1] \o NumeralText(Tail(ds))

IsDecimalOf(s, n) ==
    \E ds \in Numerals :
        /\ Len(ds) = 1 \/ ds[1] /= 0
        /\ NumeralValue(ds) = n
        /\ NumeralText(ds) = s

\* C2: the headers returned by Response() hold Retry-After exactly when
\* RetryAfter > 0, and then its one value is RetryAfter in decimal; so after
\* WithRetry(n) the header is n for n > 0 and absent for n <= 0.
C2_RetryAfterHeader ==
    ret.op = "Response" =>
        LET e == errors[ret.recv[2]]
            h == ret.val.headers
            n == born[ret.recv[2]].retried
        IN  /\ ("Retry-After" \in DOMAIN h) <=> (e.RetryAfter > 0)
            /\ "Retry-After" \in DOMAIN h =>
                  /\ Len(h["Retry-After"]) = 1
                  /\ IsDecimalOf(h["Retry-After"][1], e.RetryAfter)
            /\ (n /= <<>> /\ n[1] > 0) =>
                  /\ "Retry-After" \in DOMAIN h
                  /\ IsDecimalOf(h["Retry-After"][1], n[1])
            /\ (n /= <<>> /\ n[1] <= 0) => "Retry-After" \notin DOMAIN h

\* C2 witness: BadRequest(id, "invalid payload").WithRetry(120).Response()
\* answers 400 with Retry-After: 120.
C2_Witness ==
    /\ ret.op = "Response"
    /\ born[ret.recv[2]].ctor = "BadRequest"
    /\ born[ret.recv[2]].retried = <<120>>
    /\ ret.val.status = 400
    /\ ret.val.headers = ("Retry-After" :> <<"120">>)

\* C3: Status() returns the status passed at construction when it is not 0, and
\* StatusFor of the error's code otherwise.
C3_StatusOverrideOrTable ==
    ret.op = "Status" =>
        LET b == born[ret.recv[2]]
        IN  ret.val = IF b.status /= 0 THEN b.status ELSE StatusFor(b.code)

\* C3 witness: no explicit status and a code the table maps to 400.
C3_Witness ==
    /\ ret.op = "Status"
    /\ born[ret.recv[2]].status = 0
    /\ born[ret.recv[2]].code = "required"
    /\ ret.val = 400


-----------------------------------------------------------------------------
(* validation_error: ValidationError, ErrorEnvelope, ErrValidation *)

\* A Go slice: nil, or a (possibly empty) list of items.
NilSlice == [isNil |-> TRUE, items |-> <<>>]
EmptySlice == [isNil |-> FALSE, items |-> <<>>]

\* The builtin append(s, v): the result is never nil and ends with v.
GoAppend(s, v) == [isNil |-> FALSE, items |-> Append(s.items, v)]

\* New() with its make([]ValidationError, 0) left out.
NewWithoutMake == [Details |-> NilSlice]

\* New(): &ErrorEnvelope{Details: make([]ValidationError, 0)}
New == [Details |-> EmptySlice]

\* &ErrorEnvelope{}: the zero value of the struct.
ZeroEnvelope == [Details |-> NilSlice]

\* Append putting the new entry first.
EnvelopePrepend(e, v) ==
    [e EXCEPT !.Details = [isNil |-> FALSE, items |-> <<v>> \o @.items]]

\* (*ErrorEnvelope).Append
EnvelopeAppend(e, v) == [e EXCEPT !.Details = GoAppend(@, v)]

\* (*ErrorEnvelope).Error, Unwrap and Is
EnvelopeError(e) == strs[ErrValidation[2]]
UnwrapEnvelope(e) == ErrValidation
EnvelopeIs(e, target) == target = ErrValidation

\* encoding/json on the envelope.  A string is quoted as it stands: the inputs
\* hold no character that JSON escapes.
Quote(s) == "\"" \o s \o "\""

MarshalValidationError(v) ==
    "{\"field\":" \o Quote(v.Field) \o ",\"message\":" \o Quote(v.Message)
        \o ",\"loc\":" \o Quote(v.Loc) \o ",\"code\":" \o Quote(v.Code) \o "}"

RECURSIVE MarshalItems(_)
MarshalItems(items) ==
    IF Len(items) = 1 THEN MarshalValidationError(items[1])
    ELSE MarshalValidationError(items[1]) \o "," \o MarshalItems(Tail(items))

MarshalSlice(s) ==
    IF s.isNil THEN "null"
    ELSE IF s.items = <<>> THEN "[]"
    ELSE "[" \o MarshalItems(s.items) \o "]"

MarshalEnvelope(e) == "{\"details\":" \o MarshalSlice(e.Details) \o "}"

-----------------------------------------------------------------------------
(* errors.Is and errors.As over the error types of this repository *)

\* err.Unwrap() by the dynamic type of err; an errors.New value has no Unwrap.
Unwrap(p) ==
    IF IsHTTPError(p) THEN UnwrapHTTPError(errors[p[2]])
    ELSE IF IsEnvelope(p) THEN UnwrapEnvelope(envelopes[p[2]])
    ELSE IF IsWrap(p) THEN wraps[p[2]].err
    ELSE Nil

\* errors.Is and errors.As step from err to err.Unwrap() in a loop that ends
\* at a match or at a nil Unwrap.  On a chain that leads back to an error
\* already passed, with no match before, the loop never ends and the call does
\* not return: the result then is [done |-> FALSE], and otherwise
\* [done |-> TRUE, val |-> the value returned].  The heap is finite and is not
\* written during the walk, so meeting an error of `seen` again is exactly the
\* case of an endless walk.
RECURSIVE IsFrom(_, _, _)
IsFrom(err, target, seen) ==
    IF err \in seen THEN [done |-> FALSE]
    ELSE IF err = target THEN [done |-> TRUE, val |-> TRUE]
    ELSE IF IsEnvelope(err) /\ EnvelopeIs(envelopes[err[2]], target)
         THEN [done |-> TRUE, val |-> TRUE]
    ELSE IF Unwrap(err) = Nil THEN [done |-> TRUE, val |-> FALSE]
    ELSE IsFrom(Unwrap(err), target, seen \cup {err})

\* errors.Is(err, target): target is a pointer, hence comparable.
ErrorsIs(err, target) ==
    IF err = Nil \/ target = Nil THEN [done |-> TRUE, val |-> (err = target)]
    ELSE IsFrom(err, target, {})

RECURSIVE AsFrom(_, _, _)
AsFrom(err, T, seen) ==
    IF err = Nil THEN [done |-> TRUE, val |-> Nil]
    ELSE IF err \in seen THEN [done |-> FALSE]
    ELSE IF err[1] = T THEN [done |-> TRUE, val |-> err]
    ELSE AsFrom(Unwrap(err), T, seen \cup {err})

\* errors.As(err, &target) for a target of pointer type T: the first error of
\* the chain whose type is T, or Nil when As returns false.
ErrorsAs(err, T) == AsFrom(err, T, {})

\* Extract by a type assertion on err itself, without errors.As.
ExtractByAssertion(err) ==
    IF IsEnvelope(err) THEN [done |-> TRUE, val |-> <<err, TRUE>>]
    ELSE [done |-> TRUE, val |-> <<Nil, FALSE>>]

\* Extract(err): (envelope, ok)
Extract(err) ==
    LET envelope == ErrorsAs(err, "ErrorEnvelope")
    IN  IF ~envelope.done THEN [done |-> FALSE]
        ELSE IF envelope.val /= Nil THEN [done |-> TRUE, val |-> <<envelope.val, TRUE>>]
        ELSE [done |-> TRUE, val |-> <<Nil, FALSE>>]

\* FromError by a type assertion on err itself, without errors.As.
FromErrorByAssertion(requestID, err) ==
    IF err = Nil THEN [done |-> TRUE, val |-> Nil, new |-> <<>>]
    ELSE IF IsHTTPError(err) THEN [done |-> TRUE, val |-> err, new |-> <<>>]
    ELSE [done |-> TRUE, val |-> <<"HTTPError", Len(errors) + 1>>,
          new |-> <<WithCause(Named("Internal", requestID, "", <<>>), err)>>]

\* err.Error() by the dynamic type of err; fmt.Errorf puts "query failed: "
\* before the text of the error it wraps.  On Nil, the nil *HTTPError that
\* FromError returns for a nil err, (*HTTPError).Error answers "<nil>".
RECURSIVE ErrorText(_)
ErrorText(p) ==
    IF p = Nil THEN "<nil>"
    ELSE IF IsHTTPError(p) THEN errors[p[2]].Message
    ELSE IF IsEnvelope(p) THEN EnvelopeError(envelopes[p[2]])
    ELSE IF IsWrap(p) THEN "query failed: " \o ErrorText(wraps[p[2]].err)
    ELSE strs[p[2]]

\* FromError passing the text of err on as the message of the new HTTPError.
FromErrorWithText(requestID, err) ==
    IF err = Nil THEN [done |-> TRUE, val |-> Nil, new |-> <<>>]
    ELSE LET he == ErrorsAs(err, "HTTPError")
         IN  IF ~he.done THEN [done |-> FALSE, new |-> <<>>]
             ELSE IF he.val /= Nil THEN [done |-> TRUE, val |-> he.val, new |-> <<>>]
             ELSE [done |-> TRUE, val |-> <<"HTTPError", Len(errors) + 1>>,
                   new |-> <<WithCause(Named("Internal", requestID, ErrorText(err), <<>>), err)>>]

\* FromError(requestID, err): the pointer returned, and the HTTPError it
\* allocated, if any; done is FALSE when its errors.As does not return.
FromError(requestID, err) ==
    IF err = Nil THEN [done |-> TRUE, val |-> Nil, new |-> <<>>]
    ELSE LET he == ErrorsAs(err, "HTTPError")
         IN  IF ~he.done THEN [done |-> FALSE, new |-> <<>>]
             ELSE IF he.val /= Nil THEN [done |-> TRUE, val |-> he.val, new |-> <<>>]
             ELSE [done |-> TRUE, val |-> <<"HTTPError", Len(errors) + 1>>,
                   new |-> <<WithCause(Named("Internal", requestID, "", <<>>), err)>>]

-----------------------------------------------------------------------------
(* Calls on envelopes and on error chains *)

CallNew ==
    /\ envelopes' = Append(envelopes, New)
    /\ hist' = Append(hist, [origin |-> "New", given |-> <<>>, appended |-> <<>>])
    /\ ret' = [op |-> "New", val |-> <<"ErrorEnvelope", Len(envelopes) + 1>>]
    /\ UNCHANGED <<errors, born, strs, wraps, boxes, models>>

CallZeroEnvelope ==
    /\ envelopes' = Append(envelopes, ZeroEnvelope)
    /\ hist' = Append(hist, [origin |-> "zero", given |-> <<>>, appended |-> <<>>])
    /\ ret' = [op |-> "ErrorEnvelope{}", val |-> <<"ErrorEnvelope", Len(envelopes) + 1>>]
    /\ UNCHANGED <<errors, born, strs, wraps, boxes, models>>

\* &ErrorEnvelope{Details: d} for a non-nil slice d that no other value shares.
CallLiteral(d) ==
    /\ envelopes' = Append(envelopes, [Details |-> [isNil |-> FALSE, items |-> d]])
    /\ hist' = Append(hist, [origin |-> "literal", given |-> d, appended |-> <<>>])
    /\ ret' = [op |-> "ErrorEnvelope{Details}", val |-> <<"ErrorEnvelope", Len(envelopes) + 1>>]
    /\ UNCHANGED <<errors, born, strs, wraps, boxes, models>>

CallAppend(p, v) ==
    /\ envelopes' = [envelopes EXCEPT ![p[2]] = EnvelopeAppend(@, v)]
    /\ hist' = [hist EXCEPT ![p[2]].appended = Append(@, v)]
    /\ ret' = [op |-> "Append", recv |-> p, v |-> v]
    /\ UNCHANGED <<errors, born, strs, wraps, boxes, models>>

CallMarshal(p) ==
    /\ ret' = [op |-> "Marshal", recv |-> p, val |-> MarshalEnvelope(envelopes[p[2]])]
    /\ UNCHANGED <<errors, born, envelopes, hist, strs, wraps, boxes, models>>

CallErrorsNew(text) ==
    /\ strs' = Append(strs, text)
    /\ ret' = [op |-> "errors.New", val |-> <<"errorString", Len(strs) + 1>>]
    /\ UNCHANGED <<errors, born, envelopes, hist, wraps, boxes, models>>

\* fmt.Errorf("query failed: %w", err) for a non-nil err
CallErrorf(err) ==
    /\ err /= Nil
    /\ wraps' = Append(wraps, [err |-> err])
    /\ ret' = [op |-> "fmt.Errorf", val |-> <<"wrapError", Len(wraps) + 1>>]
    /\ UNCHANGED <<errors, born, envelopes, hist, strs, boxes, models>>

CallFromError(requestID, err) ==
    LET r == FromError(requestID, err)
    IN  /\ errors' = errors \o r.new
        /\ born' = born \o [k \in DOMAIN r.new |->
                              [ctor |-> "Internal", requestID |-> requestID,
                               msg |-> "", locale |-> <<>>,
                               code |-> constructors["Internal"].code,
                               status |-> constructors["Internal"].status,
                               retried |-> <<>>]]
        /\ ret' = [op |-> "FromError", requestID |-> requestID, err |-> err]
                       @@ [f \in DOMAIN r \ {"new"} |-> r[f]]
        /\ UNCHANGED <<envelopes, hist, strs, wraps, boxes, models>>

CallIs(err, target) ==
    /\ ret' = [op |-> "errors.Is", err |-> err, target |-> target]
                   @@ ErrorsIs(err, target)
    /\ UNCHANGED <<errors, born, envelopes, hist, strs, wraps, boxes, models>>

CallExtract(err) ==
    /\ ret' = [op |-> "Extract", err |-> err] @@ Extract(err)
    /\ UNCHANGED <<errors, born, envelopes, hist, strs, wraps, boxes, models>>

-----------------------------------------------------------------------------
(* SpecChain: error values wrapping one another.  Up to MaxHeap objects are
   allocated (HTTPErrors, envelopes, errors.New and fmt.Errorf values), linked by
   WithCause and fmt.Errorf, and inspected by FromError, errors.Is and Extract.
   The calls are those of one sequential program: after a call that does not
   return, none follows. *)

MaxHeap == 3

HeapSize == Len(errors) + Len(envelopes) + (Len(strs) - 1) + Len(wraps)

OwnID == "req-own"
BoundaryID == "req-boundary"
EmailInvalid ==
    [Field |-> "email", Message |-> "invalid", Loc |-> "body", Code |-> "invalid"]
NameRequired ==
    [Field |-> "name", Message |-> "name is required.", Loc |-> "query", Code |-> "required"]
FooBar == [Field |-> "foo", Message |-> "bar", Loc |-> "header", Code |-> ""]

\* The last call has returned.
Returned == ("done" \in DOMAIN ret) => ret.done

NextChain ==
    \/ Returned /\ HeapSize < MaxHeap /\ Construct("NotFound", OwnID, "", <<>>)
    \/ Returned /\ HeapSize < MaxHeap /\ CallNew
    \/ Returned /\ HeapSize < MaxHeap /\ CallZeroEnvelope
    \/ Returned /\ HeapSize < MaxHeap /\ CallLiteral(<<EmailInvalid>>)
    \/ Returned /\ HeapSize < MaxHeap /\ CallErrorsNew("connection refused")
    \/ \E err \in ErrorValues : Returned /\ HeapSize < MaxHeap /\ CallErrorf(err)
    \/ \E p \in HTTPErrorPtrs, cause \in ErrorValues :
          Returned /\ CallWithCause(p, cause)
    \/ \E err \in ErrorValues :
          /\ Returned
          /\ HeapSize < MaxHeap \/ FromError(BoundaryID, err).new = <<>>
          /\ CallFromError(BoundaryID, err)
    \/ \E err \in ErrorValues : Returned /\ CallIs(err, ErrValidation)
    \/ \E err \in ErrorValues : Returned /\ CallExtract(err)

SpecChain == Init /\ [][NextChain]_vars

\* The first error of kind T on the cause chain of err, or Nil.
FirstOfKind(err, T) ==
    LET c == CauseChain(err)
        ks == {k \in DOMAIN c : c[k][1] = T}
    IN  IF ks = {} THEN Nil ELSE c[CHOOSE k \in ks : \A j \in ks : k <= j]

\* The cause chain of err leads back to an error it has passed: the last error
\* of the listing still has a cause or a wrapped operand.
Cyclic(err) ==
    LET c == CauseChain(err)
    IN  /\ c /= <<>>
        /\ \/ IsHTTPError(c[Len(c)]) /\ errors[c[Len(c)][2]].cause /= Nil
           \/ IsWrap(c[Len(c)])

\* C4: FromError(requestID, err) returns nil for a nil err; returns the HTTPError
\* already on err's chain, untouched and with its own RequestID; and otherwise
\* returns a new internal_error HTTPError with RequestID = requestID, status 500
\* and err as its cause.  It returns in every case, on a chain that leads back
\* into itself too, and changes nothing else.
C4_FromError ==
    [][ret'.op = "FromError" =>
        LET err == ret'.err
            val == ret'.val
            he == FirstOfKind(err, "HTTPError")
        IN  /\ ret'.done
            /\ UNCHANGED <<envelopes, strs, wraps>>
            /\ err = Nil => val = Nil /\ errors' = errors
            /\ he /= Nil => val = he /\ errors' = errors
            /\ (err /= Nil /\ he = Nil) =>
                  /\ val = <<"HTTPError", Len(errors) + 1>>
                  /\ Len(errors') = Len(errors) + 1
                  /\ SubSeq(errors', 1, Len(errors)) = errors
                  /\ errors'[val[2]].Code = "internal_error"
                  /\ errors'[val[2]].RequestID = ret'.requestID
                  /\ errors'[val[2]].cause = err
                  /\ errors'[val[2]].status = 500
                  /\ errors'[val[2]].Message /= ""
    ]_vars

\* C4 witness: FromError on a fmt.Errorf value that wraps an HTTPError returned
\* that HTTPError, whose RequestID is not the one passed to FromError.
C4_Witness ==
    /\ ret.op = "FromError"
    /\ ret.done
    /\ IsWrap(ret.err)
    /\ IsHTTPError(ret.val)
    /\ errors[ret.val[2]].RequestID = OwnID
    /\ ret.requestID /= OwnID

\* C5: errors.Is(err, ErrValidation) is true whenever an ErrorEnvelope lies on
\* the cause chain of err: err is the envelope, or an HTTPError whose cause (at
\* any depth) is the envelope.
C5_SentinelMatches ==
    (/\ ret.op = "errors.Is"
     /\ ret.target = ErrValidation
     /\ FirstOfKind(ret.err, "ErrorEnvelope") /= Nil)
    => (ret.done /\ ret.val = TRUE)

\* C5 witness: a zero-initialized envelope two HTTPErrors deep was matched.
C5_Witness ==
    /\ ret.op = "errors.Is"
    /\ ret.done
    /\ ret.val = TRUE
    /\ IsHTTPError(ret.err)
    /\ IsHTTPError(errors[ret.err[2]].cause)
    /\ IsEnvelope(errors[errors[ret.err[2]].cause[2]].cause)
    /\ envelopes[errors[errors[ret.err[2]].cause[2]].cause[2]].Details.isNil

\* C6 as stated: Extract(err) returns (envelope, true), the envelope being the
\* one on the cause chain of err and left as it was, and returns (nil, false)
\* whenever there is none.
C6_Extract ==
    [][ret'.op = "Extract" =>
        LET envelope == FirstOfKind(ret'.err, "ErrorEnvelope")
        IN  /\ UNCHANGED <<errors, envelopes, strs, wraps>>
            /\ envelope /= Nil => (ret'.done /\ ret'.val = <<envelope, TRUE>>)
            /\ envelope = Nil => (ret'.done /\ ret'.val = <<Nil, FALSE>>)
    ]_vars

\* C6 amended: Extract(err) returns (envelope, true), the envelope being the one
\* on the cause chain of err and left as it was; returns (nil, false) when there
\* is none and the chain ends; and does not return when the chain leads back to
\* an error it has passed.  It writes nothing.
C6_ExtractOnFiniteChain ==
    [][ret'.op = "Extract" =>
        LET envelope == FirstOfKind(ret'.err, "ErrorEnvelope")
        IN  /\ UNCHANGED <<errors, envelopes, strs, wraps>>
            /\ envelope /= Nil => (ret'.done /\ ret'.val = <<envelope, TRUE>>)
            /\ (envelope = Nil /\ ~Cyclic(ret'.err)) =>
                  (ret'.done /\ ret'.val = <<Nil, FALSE>>)
            /\ Cyclic(ret'.err) => (envelope = Nil /\ ~ret'.done)
    ]_vars

\* C6 witness: an envelope with one entry, cause of an HTTPError that is in turn
\* the cause of another, was extracted.
C6_Witness ==
    /\ ret.op = "Extract"
    /\ ret.done
    /\ ret.val[2] = TRUE
    /\ IsHTTPError(ret.err)
    /\ IsHTTPError(errors[ret.err[2]].cause)
    /\ errors[errors[ret.err[2]].cause[2]].cause = ret.val[1]
    /\ envelopes[ret.val[1][2]].Details.items = <<EmailInvalid>>

-----------------------------------------------------------------------------
(* SpecEnvelope: envelopes built by New(), as the zero value or from a literal,
   filled by Append, serialized, matched and extracted. *)

MaxEnvelopes == 1
MaxDetails == 3

Entries == {EmailInvalid, NameRequired, FooBar}
Literals == {<<>>, <<FooBar>>}

NextEnvelope ==
    \/ Len(envelopes) < MaxEnvelopes /\ CallNew
    \/ Len(envelopes) < MaxEnvelopes /\ CallZeroEnvelope
    \/ \E d \in Literals : Len(envelopes) < MaxEnvelopes /\ CallLiteral(d)
    \/ \E p \in EnvelopePtrs, v \in Entries :
          /\ Len(envelopes[p[2]].Details.items) < MaxDetails
          /\ CallAppend(p, v)
    \/ \E p \in EnvelopePtrs : CallMarshal(p)
    \/ \E p \in EnvelopePtrs : CallIs(p, ErrValidation)
    \/ \E p \in EnvelopePtrs : CallExtract(p)

SpecEnvelope == Init /\ [][NextEnvelope]_vars

\* C7: while nothing has been appended, an envelope from New() holds an empty,
\* non-nil Details and serializes as {"details":[]}, and a zero-initialized one
\* holds a nil Details and serializes as {"details":null}.
C7_EmptyVersusAbsent ==
    \A i \in DOMAIN envelopes :
        hist[i].appended = <<>> =>
            /\ hist[i].origin = "New" =>
                  /\ envelopes[i].Details = EmptySlice
                  /\ (ret.op = "Marshal" /\ ret.recv[2] = i) => ret.val = "{\"details\":[]}"
            /\ hist[i].origin = "zero" =>
                  /\ envelopes[i].Details = NilSlice
                  /\ (ret.op = "Marshal" /\ ret.recv[2] = i) => ret.val = "{\"details\":null}"

\* C7 witness: an envelope from New(), nothing appended, has been serialized.
C7_Witness ==
    /\ ret.op = "Marshal"
    /\ hist[ret.recv[2]].origin = "New"
    /\ hist[ret.recv[2]].appended = <<>>
    /\ ret.val = "{\"details\":[]}"

\* C8: Details is what the envelope was given at construction followed by the
\* appended entries in call order.
C8_AppendOrder ==
    \A i \in DOMAIN envelopes :
        envelopes[i].Details.items = hist[i].given \o hist[i].appended

\* C8 witness: two different entries appended to an envelope that held one.
C8_Witness ==
    \E i \in DOMAIN envelopes :
        /\ hist[i].given = <<FooBar>>
        /\ hist[i].appended = <<EmailInvalid, NameRequired>>
        /\ envelopes[i].Details.items = <<FooBar, EmailInvalid, NameRequired>>

-----------------------------------------------------------------------------
(* The catalog as a pure function of its inputs. *)

Locales == {"en", "nb", "", "fr", "no"}
Codes == DeclaredCodes \cup {"", "no_such_code"}
ArgLists == {<<>>, <<"id">>, <<"id", "email">>}

CallHumanMessageLocale(locale, code, args) ==
    /\ ret' = [op |-> "HumanMessageLocale", locale |-> locale, code |-> code,
               args |-> args, val |-> HumanMessageLocale(locale, code, args)]
    /\ UNCHANGED <<errors, born, envelopes, hist, strs, wraps, boxes, models>>

CallHumanMessage(code, args) ==
    /\ ret' = [op |-> "HumanMessage", locale |-> "en", code |-> code,
               args |-> args, val |-> HumanMessage(code, args)]
    /\ UNCHANGED <<errors, born, envelopes, hist, strs, wraps, boxes, models>>

NextCatalog ==
    \/ \E locale \in Locales, code \in Codes, args \in ArgLists :
          CallHumanMessageLocale(locale, code, args)
    \/ \E code \in Codes, args \in ArgLists : CallHumanMessage(code, args)

SpecCatalog == Init /\ [][NextCatalog]_vars

\* C9: HumanMessageLocale returns a non-empty string for every locale
\* (supported, unsupported or empty) and every code (declared or not).
C9_NeverEmpty ==
    ret.op \in {"HumanMessageLocale", "HumanMessage"} => ret.val /= ""

\* C9 witness: an unsupported locale with an undeclared code has been resolved.
C9_Witness ==
    /\ ret.op = "HumanMessageLocale"
    /\ ret.locale \notin DOMAIN catalogs
    /\ ret.code \notin DeclaredCodes
    /\ ret.val /= ""

\* C10: a code absent from the selected locale's catalog resolves to that
\* locale's own internal_error entry.
C10_LocaleOwnFallback ==
    (/\ ret.op = "HumanMessageLocale"
     /\ ret.locale \in DOMAIN catalogs
     /\ ret.code \notin DOMAIN catalogs[ret.locale]
     /\ ret.args = <<>>)
    => ret.val = Raw(catalogs[ret.locale][Internal])

-----------------------------------------------------------------------------
(* SpecTaxonomy: the status table and the catalogs looked up code by code. *)

CallStatusFor(code) ==
    /\ ret' = [op |-> "StatusFor", code |-> code, val |-> StatusFor(code)]
    /\ UNCHANGED <<errors, born, envelopes, hist, strs, wraps, boxes, models>>

NextTaxonomy ==
    \/ \E code \in Codes : CallStatusFor(code)
    \/ \E locale \in Locales, code \in Codes : CallHumanMessageLocale(locale, code, <<>>)

SpecTaxonomy == Init /\ [][NextTaxonomy]_vars

\* C11: every declared code has its own entry in the status table, in the
\* English catalog and in the Norwegian catalog, so that no lookup of a declared
\* code is answered by the unknown-code fallback.
C11_TablesCoverTaxonomy ==
    /\ (ret.op = "StatusFor" /\ ret.code \in DeclaredCodes)
          => ret.code \in DOMAIN statusByCode
    /\ (ret.op = "HumanMessageLocale" /\ ret.locale \in DOMAIN catalogs
            /\ ret.code \in DeclaredCodes)
          => ret.code \in DOMAIN catalogs[ret.locale]

\* C12: StatusFor returns a status in 100..599 for every code, and 500 for every
\* code absent from the status table.
C12_StatusForTotal ==
    ret.op = "StatusFor" =>
        /\ ret.val \in 100..599
        /\ ret.code \notin DOMAIN statusByCode => ret.val = 500

\* C12 witness: StatusFor has answered 500 for a code the table does not hold.
C12_Witness ==
    /\ ret.op = "StatusFor"
    /\ ret.code \notin DOMAIN statusByCode
    /\ ret.val = 500

-----------------------------------------------------------------------------
(* Named constructors: code, request id and message *)

\* The catalog text of code under the locale sel; an unsupported locale reads
\* the English catalog.
CatalogText(sel, code) ==
    IF sel \in DOMAIN catalogs THEN Raw(catalogs[sel][code]) ELSE Raw(messagesEN[code])

\* The first non-empty tag of the list, "en" when there is none.
RECURSIVE FirstNonEmptyTag(_)
FirstNonEmptyTag(locale) ==
    IF locale = <<>> THEN "en"
    ELSE IF Head(locale) /= "" THEN Head(locale)
    ELSE FirstNonEmptyTag(Tail(locale))

\* C13: an error built by a named constructor K(requestID, msg, locale...) has
\* K's code, the request id as given, and as message msg when msg is non-empty
\* and otherwise the catalog text of K's code in the selected locale, which is
\* the first non-empty tag of the list or "en"; NotFound with an empty msg reads
\* "The requested resource was not found." by default and
\* "Forespurt ressurs ble ikke funnet." under "nb".
C13_NamedConstructor ==
    \A i \in DOMAIN errors :
        born[i].ctor \in DOMAIN constructors =>
            /\ errors[i].Code = constructors[born[i].ctor].code
            /\ errors[i].RequestID = born[i].requestID
            /\ born[i].msg /= "" => errors[i].Message = born[i].msg
            /\ born[i].msg = "" =>
                  errors[i].Message =
                      CatalogText(FirstNonEmptyTag(born[i].locale),
                                  constructors[born[i].ctor].code)
            /\ (born[i].ctor = "NotFound" /\ born[i].msg = "") =>
                  /\ errors[i].Code = "not_found"
                  /\ born[i].locale = <<>> =>
                        errors[i].Message = "The requested resource was not found."
                  /\ born[i].locale = <<"nb">> =>
                        errors[i].Message = "Forespurt ressurs ble ikke funnet."

-----------------------------------------------------------------------------
(* SpecLocale: GetLocale over lists of locale tags *)

MaxTags == 3

Tags == {"", "en", "nb", "fr", "es", "de"}

RECURSIVE TagLists(_)
TagLists(n) ==
    IF n = 0 THEN {<<>>}
    ELSE TagLists(n - 1) \cup {Append(l, t) : l \in {x \in TagLists(n - 1) : Len(x) = n - 1}, t \in Tags}

CallGetLocale(locale) ==
    /\ ret' = [op |-> "GetLocale", locale |-> locale, val |-> GetLocale(locale)]
    /\ UNCHANGED <<errors, born, envelopes, hist, strs, wraps, boxes, models>>

NextLocale == \E locale \in TagLists(MaxTags) : CallGetLocale(locale)

SpecLocale == Init /\ [][NextLocale]_vars

\* C14: GetLocale selects the first non-empty tag of the list, and "en" when the
\* list is empty or holds no non-empty tag.
C14_FirstNonEmptyTag ==
    ret.op = "GetLocale" => ret.val = FirstNonEmptyTag(ret.locale)

-----------------------------------------------------------------------------
(* Named constructors: retry defaults *)

\* C15: as constructed, TooManyRequests is too_many_requests / 429 with
\* RetryAfter 60 and Recoverable, ServiceUnavailable is service_unavailable / 503
\* with RetryAfter 30 and Recoverable, and every other named constructor gives
\* RetryAfter 0 and not Recoverable.
C15_RetryDefaults ==
    \A i \in DOMAIN errors :
        (born[i].ctor \in DOMAIN constructors /\ born[i].retried = <<>>) =>
            /\ born[i].ctor = "TooManyRequests" =>
                  /\ errors[i].Code = "too_many_requests"
                  /\ Status(errors[i]) = 429
                  /\ errors[i].RetryAfter = 60
                  /\ errors[i].Recoverable = TRUE
            /\ born[i].ctor = "ServiceUnavailable" =>
                  /\ errors[i].Code = "service_unavailable"
                  /\ Status(errors[i]) = 503
                  /\ errors[i].RetryAfter = 30
                  /\ errors[i].Recoverable = TRUE
            /\ born[i].ctor \notin {"TooManyRequests", "ServiceUnavailable"} =>
                  /\ errors[i].RetryAfter = 0
                  /\ errors[i].Recoverable = FALSE

\* C15 witness: ServiceUnavailable has been called and its Response taken, no
\* WithRetry in between.
C15_Witness ==
    /\ ret.op = "Response"
    /\ ret.val.status = 503
    /\ \E i \in DOMAIN errors :
          /\ born[i].ctor = "ServiceUnavailable"
          /\ born[i].retried = <<>>
          /\ errors[i].RetryAfter = 30
          /\ errors[i].Recoverable = TRUE

-----------------------------------------------------------------------------
(* types: JSONB[T]

   A Go value is a record that carries its dynamic type t, as reflect sees it:
   a scalar holds its payload (s, n, b, f), a map its entries m as pairs
   <<key, value>> in key order, a slice or array its items, a pointer its
   target elem, a struct its fields as pairs <<name, value>>.  A value in an
   interface position (T = any, the elements of map[string]any and []any) is
   the dynamic value itself, and GoNil when the interface is nil. *)

GoNil == [t |-> "nil"]

Kind ==
    ("nil" :> "invalid") @@ ("any" :> "interface")
 @@ ("string" :> "string") @@ ("int" :> "int") @@ ("bool" :> "bool")
 @@ ("float64" :> "float64")
 @@ ("map[string]string" :> "map") @@ ("map[string]any" :> "map")
 @@ ("[]map[string]string" :> "slice") @@ ("[]any" :> "slice")
 @@ ("[2]int" :> "array")
 @@ ("*string" :> "ptr") @@ ("*any" :> "ptr")
 @@ ("Point" :> "struct") @@ ("chan int" :> "chan")

\* The element type of a map, slice, array or pointer type.
Elem ==
    ("map[string]string" :> "string") @@ ("map[string]any" :> "any")
 @@ ("[]map[string]string" :> "map[string]string") @@ ("[]any" :> "any")
 @@ ("[2]int" :> "int") @@ ("*string" :> "string") @@ ("*any" :> "any")

\* type Point struct { X int; Label string }
PointFields == <<<<"X", "int">>, <<"Label", "string">>>>

GoString(s) == [t |-> "string", s |-> s]
GoInt(n) == [t |-> "int", n |-> n]
GoBool(b) == [t |-> "bool", b |-> b]
GoFloat64(n) == [t |-> "float64", f |-> n]
NilMap(T) == [t |-> T, isNil |-> TRUE, m |-> <<>>]
MapOf(T, m) == [t |-> T, isNil |-> FALSE, m |-> m]
NilSliceOf(T) == [t |-> T, isNil |-> TRUE, items |-> <<>>]
SliceOf(T, items) == [t |-> T, isNil |-> FALSE, items |-> items]
ArrayOf(T, items) == [t |-> T, items |-> items]
NilPtr(T) == [t |-> T, isNil |-> TRUE, elem |-> GoNil]
PtrTo(T, v) == [t |-> T, isNil |-> FALSE, elem |-> v]
Point(x, label) == [t |-> "Point", fields |-> <<<<"X", GoInt(x)>>, <<"Label", GoString(label)>>>>]
MakeChan == [t |-> "chan int", isNil |-> FALSE]

\* var zero T
RECURSIVE Zero(_)
Zero(T) ==
    CASE Kind[T] = "interface" -> GoNil
      [] Kind[T] = "string" -> GoString("")
      [] Kind[T] = "int" -> GoInt(0)
      [] Kind[T] = "bool" -> GoBool(FALSE)
      [] Kind[T] = "float64" -> GoFloat64(0)
      [] Kind[T] = "map" -> NilMap(T)
      [] Kind[T] = "slice" -> NilSliceOf(T)
      [] Kind[T] = "array" -> ArrayOf(T, <<Zero(Elem[T]), Zero(Elem[T])>>)
      [] Kind[T] = "ptr" -> NilPtr(T)
      [] Kind[T] = "struct" ->
            [t |-> T, fields |-> [k \in DOMAIN PointFields |->
                                    <<PointFields[k][1], Zero(PointFields[k][2])>>]]
      [] Kind[T] = "chan" -> [t |-> T, isNil |-> TRUE]

\* reflect.Value.IsZero
RECURSIVE IsZero(_)
IsZero(v) ==
    CASE Kind[v.t] = "invalid" -> TRUE
      [] Kind[v.t] = "string" -> v.s = ""
      [] Kind[v.t] = "int" -> v.n = 0
      [] Kind[v.t] = "bool" -> v.b = FALSE
      [] Kind[v.t] = "float64" -> v.f = 0
      [] Kind[v.t] \in {"map", "slice", "ptr", "chan"} -> v.isNil
      [] Kind[v.t] = "array" -> \A k \in DOMAIN v.items : IsZero(v.items[k])
      [] Kind[v.t] = "struct" -> \A k \in DOMAIN v.fields : IsZero(v.fields[k][2])

\* reflect.Value.Len of a map, slice, array or string.
ValueLen(v) ==
    CASE Kind[v.t] = "map" -> Len(v.m)
      [] Kind[v.t] \in {"slice", "array"} -> Len(v.items)
      [] Kind[v.t] = "string" -> Len(v.s)

\* isEmpty deciding on the value as it stands, pointers not followed.
isEmptyNoUnwrap(v) ==
    IF v = GoNil THEN TRUE
    ELSE IF Kind[v.t] \in {"map", "slice", "array", "string"} THEN ValueLen(v) = 0
    ELSE IsZero(v)

\* isEmpty(v any): nil, then pointers and interfaces unwrapped, then by kind.
RECURSIVE isEmpty(_)
isEmpty(v) ==
    IF v = GoNil THEN TRUE
    ELSE IF Kind[v.t] = "ptr" THEN (IF v.isNil THEN TRUE ELSE isEmpty(v.elem))
    ELSE IF Kind[v.t] \in {"map", "slice", "array", "string"} THEN ValueLen(v) = 0
    ELSE IsZero(v)

\* (JSONB[T]).Empty
Empty(j) == isEmpty(j.Data)


-----------------------------------------------------------------------------
(* encoding/json as JSONB uses it.  A JSON text is modelled by its syntax tree:
   null, a string, a number, a boolean, an array of documents, or an object
   whose members are pairs <<key, document>>. *)

JNull == [j |-> "null"]
JString(s) == [j |-> "string", s |-> s]
JNumber(n) == [j |-> "number", n |-> n]
JBool(b) == [j |-> "bool", b |-> b]
JArray(items) == [j |-> "array", items |-> items]
JObject(members) == [j |-> "object", members |-> members]

UnsupportedTypeError == <<"json.UnsupportedTypeError", 1>>
ScanTypeError == <<"JSONB.Scan: Unsupported type", 1>>

\* json.Marshal(v): the document and the error.  A map is written in key order,
\* a struct field under its Go name; a channel cannot be written.
RECURSIVE Marshal(_)
Marshal(v) ==
    LET parts ==
            CASE Kind[v.t] = "map" -> [k \in DOMAIN v.m |-> Marshal(v.m[k][2])]
              [] Kind[v.t] \in {"slice", "array"} -> [k \in DOMAIN v.items |-> Marshal(v.items[k])]
              [] Kind[v.t] = "struct" -> [k \in DOMAIN v.fields |-> Marshal(v.fields[k][2])]
              [] OTHER -> <<>>
        failed == \E k \in DOMAIN parts : parts[k].err /= Nil
        done(doc) == [doc |-> doc, err |-> Nil]
    IN  IF failed THEN [doc |-> JNull, err |-> UnsupportedTypeError]
        ELSE CASE Kind[v.t] = "invalid" -> done(JNull)
               [] Kind[v.t] = "string" -> done(JString(v.s))
               [] Kind[v.t] = "int" -> done(JNumber(v.n))
               [] Kind[v.t] = "float64" -> done(JNumber(v.f))
               [] Kind[v.t] = "bool" -> done(JBool(v.b))
               [] Kind[v.t] = "map" ->
                    IF v.isNil THEN done(JNull)
                    ELSE done(JObject([k \in DOMAIN v.m |-> <<v.m[k][1], parts[k].doc>>]))
               [] Kind[v.t] = "slice" ->
                    IF v.isNil THEN done(JNull)
                    ELSE done(JArray([k \in DOMAIN v.items |-> parts[k].doc]))
               [] Kind[v.t] = "array" -> done(JArray([k \in DOMAIN v.items |-> parts[k].doc]))
               [] Kind[v.t] = "ptr" -> IF v.isNil THEN done(JNull) ELSE Marshal(v.elem)
               [] Kind[v.t] = "struct" ->
                    done(JObject([k \in DOMAIN v.fields |-> <<v.fields[k][1], parts[k].doc>>]))
               [] Kind[v.t] = "chan" -> [doc |-> JNull, err |-> UnsupportedTypeError]

\* The keys of the model, in the order json.Marshal sorts them.
KeyOrder == <<"bad", "env", "k", "key", "n", "tenant_id">>
KeyRank(key) == CHOOSE r \in DOMAIN KeyOrder : KeyOrder[r] = key

\* m[key] = val on a map kept in key order.
MapSet(m, key, val) ==
    IF \E k \in DOMAIN m : m[k][1] = key
    THEN [k \in DOMAIN m |-> IF m[k][1] = key THEN <<key, val>> ELSE m[k]]
    ELSE LET before == SelectSeq(m, LAMBDA e : KeyRank(e[1]) < KeyRank(key))
             after == SelectSeq(m, LAMBDA e : KeyRank(e[1]) > KeyRank(key))
         IN  before \o <<<<key, val>>>> \o after

\* The member of an object under a key, <<>> when there is none.
Member(members, key) ==
    LET ks == {k \in DOMAIN members : members[k][1] = key}
    IN  IF ks = {} THEN <<>> ELSE <<members[CHOOSE k \in ks : TRUE][2]>>

\* json.Unmarshal(b, &x) for x of static type T holding old and b a document
\* of T's shape: the value x holds afterwards.
\*  - null sets an interface, map, slice or pointer to nil and leaves any other
\*    type as it is;
\*  - an interface receives string, float64, bool, []any or map[string]any;
\*  - an object is stored into the map already there (a nil map is made first)
\*    and into the fields of the struct already there;
\*  - an array is decoded element by element over the elements already there,
\*    and an empty array gives an empty, non-nil slice;
\*  - a pointer keeps its target, and a nil pointer gets a new one.
RECURSIVE Unmarshal(_, _, _), UnmarshalMembers(_, _, _)
Unmarshal(b, T, old) ==
    IF b = JNull
    THEN IF Kind[T] \in {"interface", "map", "slice", "ptr"} THEN Zero(T) ELSE old
    ELSE CASE Kind[T] = "interface" ->
               (CASE b.j = "string" -> GoString(b.s)
                  [] b.j = "number" -> GoFloat64(b.n)
                  [] b.j = "bool" -> GoBool(b.b)
                  [] b.j = "array" ->
                        SliceOf("[]any", [k \in DOMAIN b.items |->
                                            Unmarshal(b.items[k], "any", GoNil)])
                  [] b.j = "object" ->
                        MapOf("map[string]any", UnmarshalMembers(b.members, "any", <<>>)))
           [] Kind[T] = "string" -> GoString(b.s)
           [] Kind[T] = "int" -> GoInt(b.n)
           [] Kind[T] = "bool" -> GoBool(b.b)
           [] Kind[T] = "map" ->
                MapOf(T, UnmarshalMembers(b.members, Elem[T], old.m))
           [] Kind[T] = "slice" ->
                SliceOf(T, [k \in DOMAIN b.items |->
                              Unmarshal(b.items[k], Elem[T],
                                        IF k \in DOMAIN old.items THEN old.items[k]
                                        ELSE Zero(Elem[T]))])
           [] Kind[T] = "array" ->
                ArrayOf(T, [k \in DOMAIN old.items |->
                              IF k \in DOMAIN b.items
                              THEN Unmarshal(b.items[k], Elem[T], old.items[k])
                              ELSE Zero(Elem[T])])
           [] Kind[T] = "ptr" ->
                PtrTo(T, Unmarshal(b, Elem[T],
                                   IF old.isNil THEN Zero(Elem[T]) ELSE old.elem))
           [] Kind[T] = "struct" ->
                [old EXCEPT !.fields = [k \in DOMAIN old.fields |->
                    LET name == old.fields[k][1]
                        given == Member(b.members, name)
                    IN  IF given = <<>> THEN old.fields[k]
                        ELSE <<name, Unmarshal(given[1], PointFields[k][2], old.fields[k][2])>>]]

\* The members of an object stored one by one into the entries m of a map with
\* elements of type E; each element is decoded into a new zero E.
UnmarshalMembers(members, E, m) ==
    IF members = <<>> THEN m
    ELSE UnmarshalMembers(Tail(members), E,
                          MapSet(m, Head(members)[1],
                                 Unmarshal(Head(members)[2], E, Zero(E))))

-----------------------------------------------------------------------------
(* The methods of JSONB[T]; a box is [T, Data]. *)

\* Validate without the final json.Marshal.
ValidateWithoutMarshal(j) == Nil

\* (JSONB[T]).Validate
Validate(j) ==
    LET v == j.Data
    IN  IF v.t = "map[string]string" /\ Len(v.m) = 0 THEN Nil
        ELSE IF v.t = "[]map[string]string" /\ Len(v.items) = 0 THEN Nil
        ELSE Marshal(v).err

\* MarshalJSON left to the default encoding of the struct JSONB{Data T}.
MarshalJSONAsStruct(j) ==
    LET r == Marshal(j.Data)
    IN  IF r.err /= Nil THEN r ELSE [doc |-> JObject(<<<<"Data", r.doc>>>>), err |-> Nil]

\* (JSONB[T]).MarshalJSON and (JSONB[T]).Value
MarshalJSON(j) == Marshal(j.Data)
Value(j) == Marshal(j.Data)

\* (*JSONB[T]).UnmarshalJSON: the box afterwards and the error.
UnmarshalJSON(j, b) ==
    [box |-> [j EXCEPT !.Data = Unmarshal(b, j.T, j.Data)], err |-> Nil]

\* A value handed to Scan by database/sql: nil, bytes or a string.
SrcNil == [src |-> "nil"]
SrcBytes(b) == [src |-> "[]byte", b |-> b]
SrcString(b) == [src |-> "string", b |-> b]

\* (*JSONB[T]).Scan: the box afterwards and the error.
Scan(j, src) ==
    IF src = SrcNil THEN [box |-> [j EXCEPT !.Data = Zero(j.T)], err |-> Nil]
    ELSE IF src.src = "[]byte" THEN UnmarshalJSON(j, src.b)
    ELSE [box |-> j, err |-> ScanTypeError]


-----------------------------------------------------------------------------
(* Calls on JSONB boxes *)

BoxPtrs == DOMAIN boxes

\* JSONB[T]{Data: v}
CallNewBox(T, v) ==
    /\ boxes' = Append(boxes, [T |-> T, Data |-> v])
    /\ ret' = [op |-> "JSONB{Data}", val |-> Len(boxes) + 1]
    /\ UNCHANGED <<errors, born, envelopes, hist, strs, wraps, models>>

\* var j JSONB[T]
CallVarBox(T) ==
    /\ boxes' = Append(boxes, [T |-> T, Data |-> Zero(T)])
    /\ ret' = [op |-> "JSONB{}", val |-> Len(boxes) + 1]
    /\ UNCHANGED <<errors, born, envelopes, hist, strs, wraps, models>>

CallEmpty(i) ==
    /\ ret' = [op |-> "Empty", recv |-> i, data |-> boxes[i].Data, val |-> Empty(boxes[i])]
    /\ UNCHANGED <<errors, born, envelopes, hist, strs, wraps, boxes, models>>

CallValidate(i) ==
    /\ ret' = [op |-> "Validate", recv |-> i, data |-> boxes[i].Data,
               err |-> Validate(boxes[i])]
    /\ UNCHANGED <<errors, born, envelopes, hist, strs, wraps, boxes, models>>

CallMarshalJSON(i) ==
    /\ ret' = [op |-> "MarshalJSON", recv |-> i, data |-> boxes[i].Data,
               val |-> MarshalJSON(boxes[i])]
    /\ UNCHANGED <<errors, born, envelopes, hist, strs, wraps, boxes, models>>

CallUnmarshalJSON(i, b) ==
    LET r == UnmarshalJSON(boxes[i], b)
    IN  /\ boxes' = [boxes EXCEPT ![i] = r.box]
        /\ ret' = [op |-> "UnmarshalJSON", recv |-> i, b |-> b,
                   before |-> boxes[i].Data, err |-> r.err]
        /\ UNCHANGED <<errors, born, envelopes, hist, strs, wraps, models>>

CallScan(i, src) ==
    LET r == Scan(boxes[i], src)
    IN  /\ boxes' = [boxes EXCEPT ![i] = r.box]
        /\ ret' = [op |-> "Scan", recv |-> i, src |-> src,
                   before |-> boxes[i].Data, err |-> r.err]
        /\ UNCHANGED <<errors, born, envelopes, hist, strs, wraps, models>>

-----------------------------------------------------------------------------
(* SpecJSONB: a box JSONB[T]{Data: v} and zero-valued boxes of the same T, put
   through Empty, Validate, MarshalJSON, UnmarshalJSON and Scan. *)

MaxBoxes == 2

BoxTypes ==
    {"any", "string", "int", "bool", "map[string]string", "map[string]any",
     "[]map[string]string", "[2]int", "*string", "*any", "Point"}

EnvTest == <<<<"env", GoString("test")>>>>
KeyValue == <<<<"key", GoString("value")>>>>

\* The values of type T a box is built with.  An interface never holds a
\* non-nil pointer here.
BoxValues(T) ==
    CASE T = "any" ->
            {GoNil, GoString(""), GoString("a"), GoInt(7), GoFloat64(7), GoBool(TRUE),
             MapOf("map[string]any", <<<<"k", GoString("v")>>>>),
             MapOf("map[string]string", <<>>),
             SliceOf("[]any", <<GoString("a")>>), NilPtr("*string")}
      [] T = "string" -> {GoString(""), GoString("a")}
      [] T = "int" -> {GoInt(0), GoInt(7)}
      [] T = "bool" -> {GoBool(FALSE), GoBool(TRUE)}
      [] T = "map[string]string" ->
            {NilMap(T), MapOf(T, <<>>), MapOf(T, EnvTest), MapOf(T, KeyValue),
             MapOf(T, EnvTest \o KeyValue)}
      [] T = "map[string]any" ->
            {NilMap(T), MapOf(T, <<>>), MapOf(T, <<<<"k", GoString("v")>>>>),
             MapOf(T, <<<<"n", GoInt(7)>>>>), MapOf(T, <<<<"k", GoNil>>>>),
             MapOf(T, <<<<"bad", MakeChan>>>>)}
      [] T = "[]map[string]string" ->
            {NilSliceOf(T), SliceOf(T, <<>>),
             SliceOf(T, <<MapOf("map[string]string", KeyValue)>>),
             SliceOf(T, <<MapOf("map[string]string", EnvTest),
                          MapOf("map[string]string", KeyValue)>>),
             SliceOf(T, <<NilMap("map[string]string")>>)}
      [] T = "[2]int" -> {ArrayOf(T, <<GoInt(0), GoInt(0)>>), ArrayOf(T, <<GoInt(7), GoInt(0)>>)}
      [] T = "*string" -> {NilPtr(T), PtrTo(T, GoString("")), PtrTo(T, GoString("a"))}
      [] T = "*any" -> {NilPtr(T), PtrTo(T, GoNil), PtrTo(T, GoString("a"))}
      [] T = "Point" -> {Point(0, ""), Point(7, ""), Point(0, "a"), Point(7, "a")}

\* The JSON texts a box of type T is given to decode: null and the encodings
\* of the values of T.
WireDocs(T) ==
    {JNull} \cup {Marshal(v).doc : v \in {w \in BoxValues(T) : Marshal(w).err = Nil}}

Sources(T) ==
    {SrcNil} \cup {SrcBytes(b) : b \in WireDocs(T)} \cup {SrcString(JNull)}

NextJSONB ==
    \/ \E T \in BoxTypes : \E v \in BoxValues(T) : boxes = <<>> /\ CallNewBox(T, v)
    \/ /\ boxes /= <<>>
       /\ Len(boxes) < MaxBoxes
       /\ CallVarBox(boxes[1].T)
    \/ \E i \in BoxPtrs : CallEmpty(i)
    \/ \E i \in BoxPtrs : CallValidate(i)
    \/ \E i \in BoxPtrs : CallMarshalJSON(i)
    \/ \E i \in BoxPtrs : \E b \in WireDocs(boxes[i].T) : CallUnmarshalJSON(i, b)
    \/ \E i \in BoxPtrs : \E src \in Sources(boxes[i].T) : CallScan(i, src)

SpecJSONB == Init /\ [][NextJSONB]_vars

\* The value reached from v through its non-nil pointers.
RECURSIVE Target(_)
Target(v) ==
    IF v /= GoNil /\ Kind[v.t] = "ptr" /\ ~v.isNil THEN Target(v.elem) ELSE v

\* C16: Empty() is true exactly when the owned value, pointers and interfaces
\* unwrapped, is absent (nil), a string of length zero, a slice, array or map of
\* length zero, or a zero-valued struct or scalar; a populated collection and a
\* non-zero scalar are not empty.
C16_EmptyExactly ==
    ret.op = "Empty" =>
        LET v == Target(ret.data)
            absent == \/ v = GoNil
                      \/ Kind[v.t] \in {"ptr", "map", "slice"} /\ v.isNil
            noText == Kind[v.t] = "string" /\ v.s = ""
            noItems == \/ Kind[v.t] = "map" /\ v.m = <<>>
                       \/ Kind[v.t] \in {"slice", "array"} /\ v.items = <<>>
            zeroStruct == v.t = "Point" /\ v = Point(0, "")
            zeroScalar == \/ v.t = "int" /\ v.n = 0
                          \/ v.t = "bool" /\ v.b = FALSE
                          \/ v.t = "float64" /\ v.f = 0
        IN  ret.val = (absent \/ noText \/ noItems \/ zeroStruct \/ zeroScalar)

\* C16 witness: a non-nil pointer to the empty string has been found empty.
C16_Witness ==
    /\ ret.op = "Empty"
    /\ ret.data = PtrTo("*string", GoString(""))
    /\ ret.val = TRUE

\* A channel occurs in v.
RECURSIVE HoldsChan(_)
HoldsChan(v) ==
    CASE Kind[v.t] = "chan" -> TRUE
      [] Kind[v.t] = "map" -> \E k \in DOMAIN v.m : HoldsChan(v.m[k][2])
      [] Kind[v.t] \in {"slice", "array"} -> \E k \in DOMAIN v.items : HoldsChan(v.items[k])
      [] Kind[v.t] = "struct" -> \E k \in DOMAIN v.fields : HoldsChan(v.fields[k][2])
      [] Kind[v.t] = "ptr" -> ~v.isNil /\ HoldsChan(v.elem)
      [] OTHER -> FALSE

\* C17: Validate() returns nil for a map[string]string and a []map[string]string
\* of length zero, nil for every value json.Marshal encodes, and an error for a
\* value that holds a channel.
C17_Validate ==
    ret.op = "Validate" =>
        LET v == ret.data
        IN  /\ (v.t = "map[string]string" /\ v.m = <<>>) => ret.err = Nil
            /\ (v.t = "[]map[string]string" /\ v.items = <<>>) => ret.err = Nil
            /\ ~HoldsChan(v) => ret.err = Nil
            /\ HoldsChan(v) => ret.err /= Nil

\* C17 witness: Validate has rejected a map[string]any with a channel in it.
C17_Witness ==
    /\ ret.op = "Validate"
    /\ ret.data = MapOf("map[string]any", <<<<"bad", MakeChan>>>>)
    /\ ret.err /= Nil

\* The encoding of a box is the encoding of its Data, not an object that wraps
\* it under a Data key.
TransparentEncoding ==
    ret.op = "MarshalJSON" =>
        /\ ret.val.err = Marshal(ret.data).err
        /\ ret.val.doc = Marshal(ret.data).doc
        /\ ~(ret.val.doc.j = "object"
               /\ \E k \in DOMAIN ret.val.doc.members :
                     ret.val.doc.members[k][1] \in {"Data", "data"})

\* Box i encodes without error and box k, zero-valued before, has just decoded
\* that encoding.
Decoded(i, k) ==
    /\ i /= k
    /\ Marshal(boxes[i].Data).err = Nil
    /\ ret.op = "UnmarshalJSON"
    /\ ret.recv = k
    /\ ret.before = Zero(boxes[k].T)
    /\ ret.b = Marshal(boxes[i].Data).doc

\* C18 as claimed: the encoding of JSONB{Data: v} is the encoding of v, and
\* decoding it into a JSONB gives Data = v, for every v that encodes.
C18_RoundTrip ==
    /\ TransparentEncoding
    /\ \A i, k \in BoxPtrs : Decoded(i, k) => boxes[k].Data = boxes[i].Data

\* v of static type T is restored by encoding/json: in an interface position it
\* is nil, a string, a bool, a float64, or a non-nil []any or map[string]any of
\* such values, and no non-nil pointer of it has a target that encodes as null.
RECURSIVE Restored(_, _)
Restored(v, T) ==
    CASE Kind[T] = "interface" ->
            \/ v = GoNil
            \/ v.t \in {"string", "bool", "float64"}
            \/ /\ v.t = "[]any"
               /\ ~v.isNil
               /\ \A k \in DOMAIN v.items : Restored(v.items[k], "any")
            \/ /\ v.t = "map[string]any"
               /\ ~v.isNil
               /\ \A k \in DOMAIN v.m : Restored(v.m[k][2], "any")
      [] Kind[T] = "map" -> \A k \in DOMAIN v.m : Restored(v.m[k][2], Elem[T])
      [] Kind[T] \in {"slice", "array"} ->
            \A k \in DOMAIN v.items : Restored(v.items[k], Elem[T])
      [] Kind[T] = "ptr" ->
            v.isNil \/ (Marshal(v.elem).doc /= JNull /\ Restored(v.elem, Elem[T]))
      [] Kind[T] = "struct" ->
            \A k \in DOMAIN v.fields : Restored(v.fields[k][2], PointFields[k][2])
      [] OTHER -> TRUE

\* C18 amended: the encoding of JSONB{Data: v} is the encoding of v, and
\* decoding it into a zero-valued JSONB[T] gives Data = v for every v that
\* encoding/json restores.
C18_RoundTripRestored ==
    /\ TransparentEncoding
    /\ \A i, k \in BoxPtrs :
          (Decoded(i, k) /\ Restored(boxes[i].Data, boxes[i].T))
              => boxes[k].Data = boxes[i].Data

\* C18 witness: a map[string]string with two entries has been decoded into a
\* zero-valued box from its own encoding.
C18_Witness ==
    /\ Len(boxes) = 2
    /\ Decoded(1, 2)
    /\ boxes[1].Data = MapOf("map[string]string", EnvTest \o KeyValue)
    /\ boxes[2].Data = boxes[1].Data

\* C19: after Scan(nil) and after UnmarshalJSON of null, Data is the zero value
\* of T whatever it was before, and no error is returned.
C19_NullResets ==
    (\/ ret.op = "Scan" /\ ret.src = SrcNil
     \/ ret.op = "UnmarshalJSON" /\ ret.b = JNull)
    => /\ boxes[ret.recv].Data = Zero(boxes[ret.recv].T)
       /\ ret.err = Nil

-----------------------------------------------------------------------------
(* SpecBoundary: opaque errors turned into HTTPErrors by FromError and
   written out as the response body. *)

\* json.Marshal of an *HTTPError: the five tagged fields; cause and status are
\* unexported and are not written.
MarshalHTTPError(e) ==
    "{\"code\":" \o Quote(e.Code) \o ",\"message\":" \o Quote(e.Message)
        \o ",\"request_id\":" \o Quote(e.RequestID)
        \o ",\"recoverable\":" \o (IF e.Recoverable THEN "true" ELSE "false")
        \o ",\"retry_after\":" \o Itoa(e.RetryAfter) \o "}"

CallMarshalHTTPError(p) ==
    /\ ret' = [op |-> "json.Marshal", recv |-> p, val |-> MarshalHTTPError(errors[p[2]])]
    /\ UNCHANGED <<errors, born, envelopes, hist, strs, wraps, boxes, models>>

\* p.Error() on an error of the heap or on the nil *HTTPError
CallError(p) ==
    /\ ret' = [op |-> "Error", recv |-> p, val |-> ErrorText(p)]
    /\ UNCHANGED <<errors, born, envelopes, hist, strs, wraps, boxes, models>>

CauseTexts == {"connection refused", "pq: password authentication failed"}

NextBoundary ==
    \/ \E text \in CauseTexts : HeapSize < MaxHeap /\ CallErrorsNew(text)
    \/ \E err \in ErrorValues : HeapSize < MaxHeap /\ CallErrorf(err)
    \/ HeapSize < MaxHeap /\ CallNew
    \/ \E requestID \in {OwnID, BoundaryID}, err \in ErrorValues :
          /\ HeapSize < MaxHeap \/ FromError(requestID, err).new = <<>>
          /\ CallFromError(requestID, err)
    \/ \E p \in HTTPErrorPtrs : CallMarshalHTTPError(p)
    \/ \E p \in ErrorValues : CallError(p)

SpecBoundary == Init /\ [][NextBoundary]_vars

\* C20: the body of FromError(id, e) for an opaque e is the same whatever e is:
\* code internal_error, the catalog's default message and request_id = id; any
\* two such errors with the same id have the same body.
C20_OpaqueCauseHidden ==
    /\ ret.op = "json.Marshal" =>
          ret.val = "{\"code\":\"internal_error\","
                 \o "\"message\":\"Something went wrong on our side. Please try again.\","
                 \o "\"request_id\":\"" \o born[ret.recv[2]].requestID \o "\","
                 \o "\"recoverable\":false,\"retry_after\":0}"
    /\ \A i, k \in DOMAIN errors :
          born[i].requestID = born[k].requestID
              => MarshalHTTPError(errors[i]) = MarshalHTTPError(errors[k])

\* C20 witness: two opaque errors with different texts went through FromError
\* under one request id, and the body of one has been written.
C20_Witness ==
    /\ ret.op = "json.Marshal"
    /\ \E i, k \in DOMAIN errors :
          /\ ret.recv[2] = i
          /\ born[i].requestID = born[k].requestID
          /\ errors[i].cause /= errors[k].cause
          /\ ErrorText(errors[i].cause) /= ErrorText(errors[k].cause)

-----------------------------------------------------------------------------
(* Frame conditions of WithCause, Response and WithRetry *)

\* C22: WithCause(err) with a non-nil err sets the cause to err, which Unwrap
\* then returns, leaves Code, Message, RequestID, Recoverable, RetryAfter and
\* Status() as they were, and returns its receiver.
C22_WithCauseFrame ==
    [][(ret'.op = "WithCause" /\ ret'.cause /= Nil) =>
          LET i == ret'.recv[2]
          IN  /\ errors'[i].cause = ret'.cause
              /\ UnwrapHTTPError(errors'[i]) = ret'.cause
              /\ errors'[i].Code = errors[i].Code
              /\ errors'[i].Message = errors[i].Message
              /\ errors'[i].RequestID = errors[i].RequestID
              /\ errors'[i].Recoverable = errors[i].Recoverable
              /\ errors'[i].RetryAfter = errors[i].RetryAfter
              /\ Status(errors'[i]) = Status(errors[i])
              /\ ret'.val = ret'.recv]_vars

\* C22 witness: a cause was attached to an error built with an explicit status
\* that differs from the status table's.
C22_Witness ==
    /\ ret.op = "WithCause"
    /\ ret.cause = ErrValidation
    /\ errors[ret.recv[2]].cause = ErrValidation
    /\ errors[ret.recv[2]].status = 418
    /\ errors[ret.recv[2]].Code = "not_found"

\* C23: Response() changes no field of the error; its body is the receiver,
\* its status is Status(), and a second call returns the same.
C23_ResponseFrame ==
    [][ret'.op = "Response" =>
          LET p == ret'.recv
          IN  /\ errors' = errors
              /\ ret'.val.body = p
              /\ ret'.val.status = Status(errors[p[2]])
              /\ Response(ret.recv)' = ret'.val]_vars

\* C23 witness: Response() was called on a retryable error with a cause.
C23_Witness ==
    /\ ret.op = "Response"
    /\ errors[ret.recv[2]].RetryAfter = 90
    /\ errors[ret.recv[2]].cause = ErrValidation
    /\ "Retry-After" \in DOMAIN ret.val.headers

\* C24: WithRetry(n) returns its receiver, sets RetryAfter to n and Recoverable
\* to n > 0 whatever they were before, changes nothing else, and applied again
\* with the same n changes nothing.
C24_WithRetryLastWins ==
    [][ret'.op = "WithRetry" =>
          LET i == ret'.recv[2]
              n == ret'.n
          IN  /\ ret'.val = ret'.recv
              /\ errors'[i] = [errors[i] EXCEPT !.RetryAfter = n, !.Recoverable = (n > 0)]
              /\ WithRetry(errors'[i], n) = errors'[i]]_vars

\* C24 witness: TooManyRequests(...).WithRetry(1) holds 1, not the default 60.
C24_Witness ==
    /\ ret.op = "WithRetry"
    /\ ret.n = 1
    /\ born[ret.recv[2]].ctor = "TooManyRequests"
    /\ errors[ret.recv[2]].RetryAfter = 1
    /\ errors[ret.recv[2]].Recoverable

-----------------------------------------------------------------------------
(* Named constructors: explicit status against the status table *)

\* C28: the status a named constructor passes equals StatusFor of the code it
\* sets, so Status() of the error it returns agrees with the status table.
C28_ConstructorStatusInTable ==
    \A i \in DOMAIN errors :
        born[i].ctor \in DOMAIN constructors =>
            /\ errors[i].status = StatusFor(errors[i].Code)
            /\ Status(errors[i]) = StatusFor(errors[i].Code)

\* C28 witness: Status() was asked of a ServiceUnavailable error and answered
\* 503, which is also what the table holds for service_unavailable.
C28_Witness ==
    /\ ret.op = "Status"
    /\ born[ret.recv[2]].ctor = "ServiceUnavailable"
    /\ errors[ret.recv[2]].Code = "service_unavailable"
    /\ ret.val = 503
    /\ statusByCode["service_unavailable"] = 503

-----------------------------------------------------------------------------
(* page: Sanitize and Compute *)

(* Go's int64, and int as the 64-bit targets have it, in two's complement.
   A value is its 64 bits as four 16-bit limbs, the most significant first:
   -1 is <<65535, 65535, 65535, 65535>>.  Sums and differences wrap as the
   machine's do; the quotient is truncated toward zero. *)
Base == 2 ^ 16

\* a + b, the carry out of the top limb dropped
Add64(a, b) ==
    LET s4 == a[4] + b[4]
        s3 == a[3] + b[3] + (s4 \div Base)
        s2 == a[2] + b[2] + (s3 \div Base)
        s1 == a[1] + b[1] + (s2 \div Base)
    IN  <<s1 % Base, s2 % Base, s3 % Base, s4 % Base>>

Neg64(a) == Add64([i \in 1..4 |-> Base - 1 - a[i]], <<0, 0, 0, 1>>)

Sub64(a, b) == Add64(a, Neg64(b))

\* The int64 of value n, for |n| < 2^31.
Int64(n) ==
    IF n >= 0 THEN <<0, 0, n \div Base, n % Base>>
    ELSE Neg64(<<0, 0, (-n) \div Base, (-n) % Base>>)

IsNeg64(a) == a[1] >= Base \div 2

\* a < b on the bit patterns read as unsigned numbers
ULess64(a, b) == \E i \in 1..4 : a[i] < b[i] /\ \A j \in 1..(i - 1) : a[j] = b[j]

\* a < b on int64 values
Less64(a, b) == IF IsNeg64(a) /= IsNeg64(b) THEN IsNeg64(a) ELSE ULess64(a, b)

\* One step of the division by shift and subtract: st holds the quotient q
\* and the remainder r < d of the bits taken so far, and bit is the next one.
DivStep(st, bit, d) ==
    LET r1 == Add64(Add64(st.r, st.r), Int64(bit))
        fits == ~ULess64(r1, d)
    IN  [q |-> Add64(Add64(st.q, st.q), Int64(IF fits THEN 1 ELSE 0)),
         r |-> IF fits THEN Sub64(r1, d) ELSE r1]

\* Unsigned quotient and remainder of n by d /= 0: UDivMod64(n, d, k) is the
\* result for the top k groups of four bits of n, each group taken from its
\* top bit down.  The remainder so far is below d, and is settled by the
\* comparison with d before the next four steps are taken.
RECURSIVE UDivMod64(_, _, _)
UDivMod64(n, d, k) ==
    IF k = 0 THEN [q |-> Int64(0), r |-> Int64(0)]
    ELSE LET above == UDivMod64(n, d, k - 1)
             group == (n[((k - 1) \div 4) + 1] \div (16 ^ (3 - ((k - 1) % 4)))) % 16
             bit(j) == (group \div (2 ^ j)) % 2
         IN  IF above.r = d THEN above
             ELSE DivStep(DivStep(DivStep(DivStep(above, bit(3), d), bit(2), d),
                                  bit(1), d), bit(0), d)

\* a / b on int64 values, b /= 0
Div64(a, b) ==
    LET ua == IF IsNeg64(a) THEN Neg64(a) ELSE a
        ub == IF IsNeg64(b) THEN Neg64(b) ELSE b
        q == UDivMod64(ua, ub, 16).q
    IN  IF IsNeg64(a) /= IsNeg64(b) THEN Neg64(q) ELSE q

MaxInt64 == <<32767, 65535, 65535, 65535>>
MinInt64 == <<32768, 0, 0, 0>>

DefaultPageSize == 20

\* math.MaxInt, int having 64 bits
MaxInt == MaxInt64

\* Sanitize(page, pageSize): the pair (page, pageSize) after normalisation.
Sanitize(page, pageSize) ==
    <<IF Less64(page, Int64(1)) THEN Int64(1) ELSE page,
      IF ~Less64(Int64(0), pageSize) THEN Int64(DefaultPageSize) ELSE pageSize>>

\* Compute(total, page, pageSize): the Page value returned.  The sum
\* total + int64(pageSize) - 1 is an int64 sum and wraps.
Compute(total, page, pageSize) ==
    LET pg == Sanitize(page, pageSize)[1]
        ps == Sanitize(page, pageSize)[2]
        positive == Less64(Int64(0), total)
        totalPages == IF positive
                      THEN Div64(Sub64(Add64(total, ps), Int64(1)), ps)
                      ELSE Int64(0)
        clamped ==
            IF positive
            THEN CASE totalPages = Int64(0) -> Int64(1)
                   [] totalPages /= Int64(0) /\ Less64(totalPages, pg) ->
                        (IF Less64(MaxInt, totalPages) THEN MaxInt ELSE totalPages)
                   [] totalPages /= Int64(0) /\ ~Less64(totalPages, pg)
                        /\ Less64(pg, Int64(1)) -> Int64(1)
                   [] OTHER -> pg
            ELSE pg
    IN  [Page |-> clamped, PageSize |-> ps, Total |-> total, TotalPages |-> totalPages,
         HasPrev |-> Less64(Int64(0), totalPages) /\ Less64(Int64(1), clamped),
         HasNext |-> Less64(Int64(0), totalPages) /\ Less64(clamped, totalPages)]

CallCompute(total, page, pageSize) ==
    /\ ret' = [op |-> "Compute", total |-> total, page |-> page, pageSize |-> pageSize,
               val |-> Compute(total, page, pageSize)]
    /\ UNCHANGED <<errors, born, envelopes, hist, strs, wraps, boxes, models>>

MaxTotal == 45

\* Item counts from -1 to MaxTotal and at both ends of the int64 range; with the
\* default page size, MaxInt64 - 19 is the largest total whose sum stays in range.
Totals ==
    {Int64(n) : n \in -1..MaxTotal}
        \cup {MinInt64, Sub64(MaxInt64, Int64(DefaultPageSize)),
              Sub64(MaxInt64, Int64(DefaultPageSize - 1)),
              Sub64(MaxInt64, Int64(DefaultPageSize - 2)), MaxInt64}

Pages == {Int64(n) : n \in -1..5} \cup {MaxInt}
PageSizes == {Int64(n) : n \in {-1, 0, 1, 2, 7, DefaultPageSize}} \cup {MaxInt}

\* Compute is a function of its arguments alone: a behaviour calls it once.
NextPage ==
    \E total \in Totals, page \in Pages, pageSize \in PageSizes :
        ret.op = "init" /\ CallCompute(total, page, pageSize)

SpecPage == Init /\ [][NextPage]_vars

\* C25: with total == 0, Compute returns Page = 1, TotalPages = 0 and neither a
\* previous nor a next page, whatever page and pageSize are.
C25_EmptyTotal ==
    (ret.op = "Compute" /\ ret.total = Int64(0)) =>
        /\ ret.val.Page = Int64(1)
        /\ ret.val.TotalPages = Int64(0)
        /\ ~ret.val.HasPrev
        /\ ~ret.val.HasNext

\* The least number of pages of size ps > 0 that hold total > 0 items: the
\* quotient of total by ps, and one more when the division leaves a remainder.
\* Nothing wraps here: the result is at most total.
PagesNeeded(total, ps) ==
    LET d == UDivMod64(total, ps, 16)
    IN  IF d.r = Int64(0) THEN d.q ELSE Add64(d.q, Int64(1))

\* C26: with total > 0, PageSize is pageSize if positive and 20 otherwise,
\* TotalPages is the least number of pages of that size holding total items,
\* Page is the requested page clamped into 1..TotalPages, HasPrev holds iff
\* Page > 1 and HasNext iff Page < TotalPages.
C26_PositiveTotal ==
    (ret.op = "Compute" /\ Less64(Int64(0), ret.total)) =>
        LET v == ret.val
        IN  /\ v.PageSize = (IF Less64(Int64(0), ret.pageSize) THEN ret.pageSize
                             ELSE Int64(20))
            /\ v.TotalPages = PagesNeeded(ret.total, v.PageSize)
            /\ v.Page = (IF Less64(ret.page, Int64(1)) THEN Int64(1)
                         ELSE IF Less64(v.TotalPages, ret.page) THEN v.TotalPages
                         ELSE ret.page)
            /\ v.HasPrev <=> Less64(Int64(1), v.Page)
            /\ v.HasNext <=> Less64(v.Page, v.TotalPages)

\* C26 holds of the calls whose sum total + PageSize - 1 stays within int64:
\* there Compute returns what the claim states.
C26_WithinRange ==
    (/\ ret.op = "Compute"
     /\ Less64(Int64(0), ret.total)
     /\ ~Less64(Sub64(MaxInt64, Sub64(ret.val.PageSize, Int64(1))), ret.total))
    => C26_PositiveTotal

-----------------------------------------------------------------------------
(* core: CoreModel, its validation, Create, Touch and the GORM hooks.
   A uuid.UUID is modelled by its String() form and a time.Time by a number,
   0 being the zero time.  What uuid.New() and Now() return is an input of the
   call that asks for it. *)

UUIDNil == "00000000-0000-0000-0000-000000000000"

\* email.IsEmailFormat on the strings of this model: mail.ParseAddress accepts
\* the two bare addresses and "Bob <bob@example.com>", whose Name is not empty;
\* it rejects "" and "not-an-email".
IsEmailFormat(s) == s \in {"user@domain.com", "dev@example.com"}

\* (*CoreModel).ValidateWithContext(loc, code, locale): the errors in the order
\* they are appended.  The code parameter of the inner helper shadows the
\* method's, so each entry carries the code of its own check.
ValidateWithContext(b, loc, code, locale) ==
    LET lc == IF locale = "" THEN "en" ELSE locale
        req(field, c) == [Field |-> field, Message |-> HumanMessageLocale(lc, c, <<field>>),
                          Loc |-> loc, Code |-> c]
        on(cond, field, c) == IF cond THEN <<req(field, c)>> ELSE <<>>
    IN  on(b.ID = UUIDNil, "id", "required")
     \o on(b.TenantID = UUIDNil, "tenant_id", "required")
     \o on(b.Name = "", "name", "required")
     \o on(b.CreatedBy = "", "created_by", "required")
     \o on(~IsEmailFormat(b.CreatedBy), "created_by", "invalid_email_format")
     \o on(b.ModifiedBy = "", "modified_by", "required")
     \o on(~IsEmailFormat(b.ModifiedBy), "modified_by", "invalid_email_format")
     \o on(b.CreatedAt = 0, "created_at", "required")
     \o on(b.ModifiedAt = 0, "modified_at", "required")
     \o on(b.Status \notin {"active", "deleted", "suspended", "rejected", "draft"},
           "status", "invalid_status")
     \o on(Validate(b.Metadata) /= Nil, "metadata", "invalid_json_format")
     \o on(Validate(b.Tags) /= Nil, "tags", "invalid_json_format")

\* (*CoreModel).Touch(subject); now is what Now() returns.
Touch(c, subject, now) == [c EXCEPT !.ModifiedAt = now, !.ModifiedBy = subject]

\* Create writing Tags["tenant_id"] whether or not the key is there.
CreateOverwritingTag(c, subject, issuer, tenantID, id, now, later) ==
    LET c1 == [c EXCEPT !.ID = IF @ = UUIDNil THEN id ELSE @,
                        !.TenantID = tenantID, !.Issuer = issuer,
                        !.CreatedAt = now, !.CreatedBy = subject]
        c2 == Touch(c1, subject, later)
    IN  [c2 EXCEPT !.Tags.Data =
            MapOf("map[string]string", MapSet(@.m, "tenant_id", GoString(tenantID)))]

\* (*CoreModel).Create(subject, issuer, tenantID); id is what uuid.New()
\* returns, now and later what the two calls of Now() return.
Create(c, subject, issuer, tenantID, id, now, later) ==
    LET c1 == [c EXCEPT !.ID = IF @ = UUIDNil THEN id ELSE @,
                        !.TenantID = tenantID, !.Issuer = issuer,
                        !.CreatedAt = now, !.CreatedBy = subject]
        c2 == Touch(c1, subject, later)
        data == IF c2.Tags.Data.isNil THEN MapOf("map[string]string", <<>>) ELSE c2.Tags.Data
    IN  [c2 EXCEPT !.Tags.Data =
            IF Member(data.m, "tenant_id") /= <<>> THEN data
            ELSE MapOf("map[string]string", MapSet(data.m, "tenant_id", GoString(tenantID)))]

\* (*CoreModel).BeforeCreate(tx)
BeforeCreate(b, id, now) ==
    LET b1 == [b EXCEPT !.ID = IF @ = UUIDNil THEN id ELSE @]
        b2 == [b1 EXCEPT !.CreatedAt = IF @ = 0 THEN now ELSE @]
        b3 == [b2 EXCEPT !.ModifiedAt = IF @ = 0 THEN b2.CreatedAt ELSE @]
        data == IF b3.Tags.Data.isNil THEN MapOf("map[string]string", <<>>) ELSE b3.Tags.Data
    IN  [b3 EXCEPT !.Tags.Data =
            IF b3.TenantID /= UUIDNil /\ Member(data.m, "tenant_id") = <<>>
            THEN MapOf("map[string]string", MapSet(data.m, "tenant_id", GoString(b3.TenantID)))
            ELSE data]


-----------------------------------------------------------------------------
(* kafka: Event and its validation; validators/uri.  A *string is a pointer
   value as in the JSONB model, a *JSONB likewise. *)

\* uri.ValidateURI(field, v, required): no entry, or the one it returns.  On the
\* strings of this model strings.TrimSpace empties "   " and leaves the others,
\* and url.ParseRequestURI finds a scheme and a host in the https URLs only.
ValidateURI(field, v, required) ==
    LET blank == v.isNil \/ v.elem.s \in {"", "   "}
        parsed == v.elem.s \in {"https://example.com/source", "https://example.com/entity",
                                "https://example.com/payload"}
        entry(msg) == <<[Field |-> field, Message |-> msg, Loc |-> "", Code |-> ""]>>
    IN  IF blank THEN (IF required THEN entry("required") ELSE <<>>)
        ELSE IF ~parsed THEN entry("invalid URI")
        ELSE <<>>

\* (*Event).Validate(): the errors in the order they are appended.  md5Re
\* matches the 32 hex digits of the model's one hash.
EventValidate(e) ==
    LET req(field, msg) == [Field |-> field, Message |-> msg, Loc |-> "", Code |-> ""]
        on(cond, field, msg) == IF cond THEN <<req(field, msg)>> ELSE <<>>
        payloadEmpty == IF e.Payload.isNil THEN TRUE ELSE Empty(e.Payload.elem)
        payloadURINilOrEmpty == e.PayloadURI.isNil \/ e.PayloadURI.elem.s \in {"", "   "}
        both == "body and body_uri cannot both be empty"
    IN  on(e.ID = UUIDNil, "id", "required")
     \o on(e.SessionID = UUIDNil, "session_id", "required")
     \o on(e.RequestID = UUIDNil, "request_id", "required")
     \o on(e.TenantID = UUIDNil, "tenant_id", "required")
     \o on(e.EventType = "", "event_type", "required")
     \o on(e.EventSource = "", "event_source", "required")
     \o on(payloadEmpty /\ payloadURINilOrEmpty, "body", both)
     \o on(payloadEmpty /\ payloadURINilOrEmpty, "body_uri", both)
     \o ValidateURI("event_source_uri", e.EventSourceURI, FALSE)
     \o ValidateURI("affected_entity_uri", e.AffectedEntityURI, FALSE)
     \o ValidateURI("body_uri", e.PayloadURI, FALSE)
     \o ValidateURI("context_uri", e.ContextURI, FALSE)
     \o on(e.Timestamp = 0, "timestamp", "required")
     \o (IF e.CreatedBy = "" THEN <<req("created_by", "required")>>
         ELSE on(~IsEmailFormat(e.CreatedBy), "created_by", "not a valid email format"))
     \o on(~e.OwnerID.isNil /\ e.OwnerID.elem.s \in {"", "   "},
           "owner_id", "cannot be empty when provided")
     \o on(e.MD5Hash = "" \/ e.MD5Hash /= "d41d8cd98f00b204e9800998ecf8427e",
           "md5_hash", "must be a 32-char hex MD5")
     \o on(~e.Payload.isNil /\ Validate(e.Payload.elem) /= Nil, "body", "invalid JSON structure")
     \o on(Validate(e.Tags) /= Nil, "tags", "invalid JSON structure")
     \o on(Validate(e.Metadata) /= Nil, "metadata", "invalid JSON structure")
     \o on(~e.Context.isNil /\ Validate(e.Context.elem) /= Nil, "body", "invalid JSON structure")

-----------------------------------------------------------------------------
(* Calls on a CoreModel *)

CallNewCoreModel(c) ==
    /\ models' = Append(models, c)
    /\ ret' = [op |-> "CoreModel{}", val |-> Len(models) + 1]
    /\ UNCHANGED <<errors, born, envelopes, hist, strs, wraps, boxes>>

CallCreate(i, subject, issuer, tenantID, id, now, later) ==
    /\ models' = [models EXCEPT ![i] = Create(@, subject, issuer, tenantID, id, now, later)]
    /\ ret' = [op |-> "Create", recv |-> i, subject |-> subject, issuer |-> issuer,
               tenantID |-> tenantID, before |-> models[i]]
    /\ UNCHANGED <<errors, born, envelopes, hist, strs, wraps, boxes>>

CallTouch(i, subject, now) ==
    /\ models' = [models EXCEPT ![i] = Touch(@, subject, now)]
    /\ ret' = [op |-> "Touch", recv |-> i, subject |-> subject]
    /\ UNCHANGED <<errors, born, envelopes, hist, strs, wraps, boxes>>

CallBeforeCreate(i, id, now) ==
    /\ models' = [models EXCEPT ![i] = BeforeCreate(@, id, now)]
    /\ ret' = [op |-> "BeforeCreate", recv |-> i, before |-> models[i], err |-> Nil]
    /\ UNCHANGED <<errors, born, envelopes, hist, strs, wraps, boxes>>

CallBeforeUpdate(i, now) ==
    /\ models' = [models EXCEPT ![i].ModifiedAt = now]
    /\ ret' = [op |-> "BeforeUpdate", recv |-> i, err |-> Nil]
    /\ UNCHANGED <<errors, born, envelopes, hist, strs, wraps, boxes>>

CallValidateWithContext(i, loc, code, locale) ==
    /\ ret' = [op |-> "ValidateWithContext", recv |-> i, locale |-> locale,
               val |-> ValidateWithContext(models[i], loc, code, locale)]
    /\ UNCHANGED <<errors, born, envelopes, hist, strs, wraps, boxes, models>>

CallEventValidate(e) ==
    /\ ret' = [op |-> "Event.Validate", recv |-> e, val |-> EventValidate(e)]
    /\ UNCHANGED <<errors, born, envelopes, hist, strs, wraps, boxes, models>>

-----------------------------------------------------------------------------
(* SpecEntities: one CoreModel written as a literal, then taken through Create,
   Touch, the hooks and validation in any order.  Now() returns 1..MaxClock and
   never less than it returned before within one call.  Event.Validate reads
   no CoreModel; it is called on event literals before one is written. *)

MaxClock == 2

TenantA == "25948ccc-cf16-491e-9cd4-44d5ebb7bc54"
TenantB == "7d1c3f0e-2b4a-4c8e-9a51-0c1d2e3f4a5b"

StringMap(m) == [T |-> "map[string]string", Data |-> MapOf("map[string]string", m)]

CoreLiterals ==
    {[ID |-> id, TenantID |-> UUIDNil, OwnerID |-> "", Issuer |-> "", Name |-> name,
      Version |-> "", Description |-> "", Status |-> st,
      Metadata |-> StringMap(<<<<"k", GoString("v")>>>>), Tags |-> tags,
      CreatedAt |-> 0, ModifiedAt |-> 0, CreatedBy |-> "", ModifiedBy |-> ""] :
        id \in {UUIDNil, "31ac4e2a-10a1-471d-ac7c-fd6ee13a526d"},
        name \in {"", "Webhook config for X"},
        st \in {"active", "closed", ""},
        tags \in {[T |-> "map[string]string", Data |-> NilMap("map[string]string")],
                  StringMap(<<<<"env", GoString("prod")>>>>),
                  StringMap(<<<<"env", GoString("prod")>>, <<"tenant_id", GoString(TenantB)>>>>)}}

\* newValidEvent() of the tests with its flexible attributes and a few of its
\* fields varied; a payload or context may hold a channel.
EventLiterals ==
    LET str(x) == PtrTo("*string", GoString(x))
        anyMap(m) == PtrTo("*JSONB", [T |-> "map[string]any", Data |-> MapOf("map[string]any", m)])
        boxed == {NilPtr("*JSONB"), anyMap(<<<<"k", GoString("v")>>>>),
                  anyMap(<<<<"bad", MakeChan>>>>)}
    IN  {[ID |-> "31ac4e2a-10a1-471d-ac7c-fd6ee13a526d", SessionID |-> TenantB,
          RequestID |-> TenantB, TenantID |-> tenant, OwnerID |-> owner,
          EventType |-> "created", EventSource |-> "unit-test",
          EventSourceURI |-> str("https://example.com/source"),
          AffectedEntityURI |-> str("not a uri"),
          Message |-> NilPtr("*string"),
          Payload |-> payload, PayloadURI |-> payloadURI,
          Metadata |-> StringMap(<<<<"k", GoString("v")>>>>),
          Tags |-> StringMap(<<<<"env", GoString("test")>>>>),
          Timestamp |-> 1, CreatedBy |-> by, MD5Hash |-> "d41d8cd98f00b204e9800998ecf8427e",
          Context |-> context, ContextURI |-> NilPtr("*string")] :
            tenant \in {UUIDNil, TenantA},
            owner \in {NilPtr("*string"), str("   ")},
            payload \in boxed, context \in boxed,
            payloadURI \in {NilPtr("*string"), str("https://example.com/payload")},
            by \in {"", "dev@example.com", "not-an-email"}}

NextEntities ==
    \/ \E c \in CoreLiterals : models = <<>> /\ CallNewCoreModel(c)
    \/ \E i \in DOMAIN models, subject \in {"user@domain.com", "not-an-email"},
          tenantID \in {UUIDNil, TenantA}, now \in 1..MaxClock, later \in 1..MaxClock :
          now <= later /\ CallCreate(i, subject, "grasp-labs", tenantID,
                                     "d9b2d63d-a233-4123-847a-7a1e2f3c4d5e", now, later)
    \/ \E i \in DOMAIN models, now \in 1..MaxClock : CallTouch(i, "dev@example.com", now)
    \/ \E i \in DOMAIN models, now \in 1..MaxClock :
          CallBeforeCreate(i, "d9b2d63d-a233-4123-847a-7a1e2f3c4d5e", now)
    \/ \E i \in DOMAIN models, now \in 1..MaxClock : CallBeforeUpdate(i, now)
    \/ \E i \in DOMAIN models, locale \in {"", "en", "nb"} :
          CallValidateWithContext(i, "body", "", locale)
    \/ \E e \in EventLiterals : models = <<>> /\ CallEventValidate(e)

SpecEntities == Init /\ [][NextEntities]_vars

\* C27: after Create(subject, issuer, tenantID) with a valid email as subject
\* and a non-nil tenantID, on a model with a name, a valid status and
\* serializable Metadata and Tags, Validate() returns no errors; ID is set (and
\* kept if it was set), TenantID, Issuer, CreatedBy = ModifiedBy = subject and
\* CreatedAt = ModifiedAt are populated and Tags holds a tenant_id.
C27_CreateThenValid ==
    (/\ ret.op = "Create"
     /\ ret.before.Name /= ""
     /\ ret.before.Status \in {"active", "deleted", "suspended", "rejected", "draft", "closed"}
     /\ Validate(ret.before.Metadata) = Nil
     /\ Validate(ret.before.Tags) = Nil
     /\ IsEmailFormat(ret.subject)
     /\ ret.tenantID /= UUIDNil) =>
        LET c == models[ret.recv]
        IN  /\ ValidateWithContext(c, "body", "", "en") = <<>>
            /\ c.ID /= UUIDNil
            /\ ret.before.ID /= UUIDNil => c.ID = ret.before.ID
            /\ c.TenantID = ret.tenantID
            /\ c.Issuer = ret.issuer
            /\ c.CreatedBy = ret.subject /\ c.ModifiedBy = ret.subject
            /\ c.CreatedAt /= 0 /\ c.CreatedAt = c.ModifiedAt
            /\ Member(c.Tags.Data.m, "tenant_id") /= <<>>

\* C30: no call changes or removes a tag that is there, tenant_id included, and
\* the only key a call may add is tenant_id.
C30_TagsKept ==
    [][\A i \in DOMAIN models :
          LET old == models[i].Tags.Data.m
              new == models'[i].Tags.Data.m
          IN  /\ \A k \in DOMAIN old : Member(new, old[k][1]) = <<old[k][2]>>
              /\ \A k \in DOMAIN new :
                    new[k][1] = "tenant_id" \/ Member(old, new[k][1]) /= <<>>]_vars

\* C30 witness: Create for tenant A on a model tagged with tenant B has run, and
\* the tag still names tenant B next to env.
C30_Witness ==
    /\ ret.op = "Create"
    /\ ret.tenantID = TenantA
    /\ models[ret.recv].TenantID = TenantA
    /\ Member(ret.before.Tags.Data.m, "tenant_id") = <<GoString(TenantB)>>
    /\ Member(models[ret.recv].Tags.Data.m, "tenant_id") = <<GoString(TenantB)>>
    /\ Member(models[ret.recv].Tags.Data.m, "env") = <<GoString("prod")>>

\* C21: when the Validate() of a flexible attribute (payload, context, metadata,
\* tags) fails, the entity's Validate() returns a list holding an entry whose
\* Field is the name of that attribute.
C21_FailureOnOwnField ==
    LET has(f) == \E k \in DOMAIN ret.val : ret.val[k].Field = f
    IN  /\ ret.op = "Event.Validate" =>
              LET e == ret.recv
              IN  /\ (~e.Payload.isNil /\ Validate(e.Payload.elem) /= Nil) => has("payload")
                  /\ (~e.Context.isNil /\ Validate(e.Context.elem) /= Nil) => has("context")
                  /\ Validate(e.Metadata) /= Nil => has("metadata")
                  /\ Validate(e.Tags) /= Nil => has("tags")
        /\ ret.op = "ValidateWithContext" =>
              /\ Validate(models[ret.recv].Metadata) /= Nil => has("metadata")
              /\ Validate(models[ret.recv].Tags) /= Nil => has("tags")

\* C29: every message ValidateWithContext produces is its template with the
\* one placeholder the template has filled by the field name: the one argument
\* passed meets exactly one placeholder, in the en and in the nb catalog.
C29_OnePlaceholderPerCall ==
    ret.op = "ValidateWithContext" =>
        \A k \in DOMAIN ret.val :
            LET v == ret.val[k]
                t == catalogs[IF ret.locale = "" THEN "en" ELSE ret.locale][v.Code]
            IN  /\ Len(t) = 2
                /\ v.Message = t[1] \o v.Field \o t[2]

====
